---------------------------- MODULE Spec2Model ----------------------------
(***************************************************************************)
(* A model of src/bot.py: the data aggregation and presentation pipeline   *)
(* of the property-ratings bot (fetchers, rating aggregation, ranking,     *)
(* report formatters, chart rendering, chunked delivery and the command    *)
(* handlers).                                                              *)
(*                                                                         *)
(* A Python str is the sequence of the code points of its characters, so   *)
(* "ab" is <<97, 98>>; the text is repeated in a comment before each       *)
(* literal.  JSON values are tagged records: None, JBool(TRUE),            *)
(* JInt(7), JFloat of a numeral, JStr of a str, JList of the items and     *)
(* JDict of the (key, value) pairs in the order of the document.  A float  *)
(* is an IEEE 754 double, an int has any size.                             *)
(***************************************************************************)
EXTENDS Integers, Sequences, FiniteSets, TLC

VARIABLES
    text,        \* split_and_send: the text argument
    start,       \* split_and_send: the local start
    sent,        \* split_and_send: the chunks handed to send_fn, in order
    splitPc,     \* split_and_send: "while" | "done"
    rec,         \* get_property_rating: the record argument p
    score,       \* get_property_rating: the outcome of the call, or NotCalled
    properties,  \* get_top_rated_properties: the properties argument
    limit,       \* get_top_rated_properties: the limit argument
    ranked,      \* get_top_rated_properties: the outcome of the call, or NotCalled
    fetcher,     \* the fetcher that ran last, or "none"
    response,    \* the HTTP outcome of the fetcher's requests.get
    fetched,     \* what the fetcher handed to its caller
    propertyId,  \* fetch_property_by_id: the property_id argument
    listResponse,\* fetch_property_by_id: the HTTP outcome of the list fallback
    fmtRec,      \* the formatters: the record argument
    formatter,   \* the formatter that ran last, or "none"
    formatted,   \* the formatter's outcome (text or a raised exception)
    handler,     \* the handler that ran last, or "none"
    update,      \* the handler: the update it was given and what the GETs answer
    replies,     \* the handler: the messages sent to the chat, in order
    chartArgs,   \* generate_ratings_chart: each call's (properties, title)
    chartPc,     \* generate_ratings_chart: each call's position
    chartLocals, \* generate_ratings_chart: each call's rows (names and ratings),
                 \* bars1, bars2 and the turn of its loop over the bars
    figs,        \* pyplot: the open figures, the current figure last
    figure,      \* pyplot: the content of every figure created
    buf          \* generate_ratings_chart: the buffer each call returned

vars == <<text, start, sent, splitPc, rec, score, properties, limit, ranked,
          fetcher, response, fetched, propertyId, listResponse,
          fmtRec, formatter, formatted, handler, update, replies,
          chartArgs, chartPc, chartLocals, figs, figure, buf>>

splitVars  == <<text, start, sent, splitPc>>
ratingVars == <<rec, score>>
rankVars   == <<properties, limit, ranked>>
fetchVars  == <<fetcher, response, fetched, propertyId, listResponse>>
formatVars == <<fmtRec, formatter, formatted>>
handlerVars == <<handler, update, replies>>
chartVars  == <<chartArgs, chartPc, chartLocals, figs, figure, buf>>

NotCalled == [t |-> "not_called"]

\* the value of a variable of an operation that is not under study
Idle == [t |-> "idle"]

\* no request was made
NoRequest == [t |-> "no_request"]

\* the outcome of a call
Return(v) == [t |-> "return", v |-> v]
Raise(e)  == [t |-> "raise", exc |-> e]

Min(a, b) == IF a <= b THEN a ELSE b
Max(a, b) == IF a >= b THEN a ELSE b

\* the least member of a set of numbers that is not empty
Least(S) == CHOOSE i \in S : \A j \in S : i <= j

\* s[a:b] for 0 <= a <= b: Python clamps the end of a slice to len(s)
PySlice(s, a, b) == SubSeq(s, a + 1, Min(b, Len(s)))

\* w, once v is computed.  (The loops below are written by halves, one half
\* finished before the other is begun, so that their depth is the logarithm of
\* their length.)
After(v, w) == IF v = v THEN w ELSE w

\* sep.join(parts)
RECURSIVE JoinSeg(_, _, _, _)
JoinSeg(sep, parts, lo, hi) ==
    IF lo > hi THEN <<>>
    ELSE IF lo = hi THEN parts[lo]
    ELSE JoinSeg(sep, parts, lo, (lo + hi) \div 2) \o sep
         \o JoinSeg(sep, parts, ((lo + hi) \div 2) + 1, hi)

Join(sep, parts) == JoinSeg(sep, parts, 1, Len(parts))

Concat(chunks) == Join(<<>>, chunks)

-----------------------------------------------------------------------------
(* Natural numbers of any size (the numbers of TLC end at 2^31): the limbs   *)
(* in base 2^13, the lowest first, without zero limbs at the top; <<>> is 0. *)

Limb == [bits |-> 13, base |-> 2^13]

RECURSIVE BigOfNat(_)
BigOfNat(n) ==
    IF n = 0 THEN <<>> ELSE <<n % Limb.base>> \o BigOfNat(n \div Limb.base)

LimbAt(x, i) == IF i <= Len(x) THEN x[i] ELSE 0

\* x without the zero limbs at its top
Trim(x) ==
    IF \A i \in 1..Len(x) : x[i] = 0 THEN <<>>
    ELSE SubSeq(x, 1, CHOOSE i \in 1..Len(x) :
                          x[i] # 0 /\ \A j \in (i + 1)..Len(x) : x[j] = 0)

\* the limbs lo..hi of x * m + y with the carry c coming in: the limbs of the
\* outcome and the carry going out (0 <= m < 2^17)
RECURSIVE MulAddSeg(_, _, _, _, _, _)
MulAddSeg(x, m, y, lo, hi, c) ==
    IF lo > hi THEN [limbs |-> <<>>, carry |-> c]
    ELSE IF lo = hi
         THEN [limbs |-> <<(LimbAt(x, lo) * m + LimbAt(y, lo) + c) % Limb.base>>,
               carry |-> (LimbAt(x, lo) * m + LimbAt(y, lo) + c) \div Limb.base]
    ELSE LET low  == MulAddSeg(x, m, y, lo, (lo + hi) \div 2, c)
             high == MulAddSeg(x, m, y, ((lo + hi) \div 2) + 1, hi, low.carry)
         IN  After(low, [limbs |-> low.limbs \o high.limbs, carry |-> high.carry])

\* the limbs, and the limbs of the carry above them
WithCarry(sum) == sum.limbs \o BigOfNat(sum.carry)

\* x * m + y
MulAdd(x, m, y) == WithCarry(MulAddSeg(x, m, y, 1, Max(Len(x), Len(y)), 0))

BigAdd(x, y) == MulAdd(x, 1, y)

\* the limbs lo..hi of x - y with the borrow b coming in
RECURSIVE SubSeg(_, _, _, _, _)
SubSeg(x, y, lo, hi, b) ==
    IF lo > hi THEN [limbs |-> <<>>, carry |-> b]
    ELSE IF lo = hi
         THEN [limbs |-> <<(x[lo] - LimbAt(y, lo) - b) % Limb.base>>,
               carry |-> IF x[lo] - LimbAt(y, lo) - b < 0 THEN 1 ELSE 0]
    ELSE LET low  == SubSeg(x, y, lo, (lo + hi) \div 2, b)
             high == SubSeg(x, y, ((lo + hi) \div 2) + 1, hi, low.carry)
         IN  After(low, [limbs |-> low.limbs \o high.limbs, carry |-> high.carry])

\* x - y for x >= y
BigSub(x, y) == Trim(SubSeg(x, y, 1, Len(x), 0).limbs)

\* the limbs lo..hi of x divided by d, the remainder r coming in from the limbs
\* above: the limbs of the quotient and the remainder going out (0 < d <= 2^17)
RECURSIVE DivSeg(_, _, _, _, _)
DivSeg(x, lo, hi, d, r) ==
    IF lo > hi THEN [q |-> <<>>, r |-> r]
    ELSE IF lo = hi
         THEN [q |-> <<(r * Limb.base + x[lo]) \div d>>, r |-> (r * Limb.base + x[lo]) % d]
    ELSE LET high == DivSeg(x, ((lo + hi) \div 2) + 1, hi, d, r)
             low  == DivSeg(x, lo, (lo + hi) \div 2, d, high.r)
         IN  After(high, [q |-> low.q \o high.q, r |-> low.r])

\* the quotient without the zero limbs at its top
TrimQuotient(result) == [q |-> Trim(result.q), r |-> result.r]

\* x \div d and x % d
DivRem(x, d) == TrimQuotient(DivSeg(x, 1, Len(x), d, 0))

\* -1, 0 or 1 as x is below, equal to or above y
CmpAt(x, y, differ) ==
    IF differ = {} THEN 0
    ELSE IF \E i \in differ : x[i] < y[i] /\ \A j \in differ : j <= i THEN -1
    ELSE 1

BigCmp(x, y) ==
    IF Len(x) # Len(y) THEN (IF Len(x) < Len(y) THEN -1 ELSE 1)
    ELSE CmpAt(x, y, {i \in 1..Len(x) : x[i] # y[i]})

\* the number of bits of x
BitLen(x) ==
    IF x = <<>> THEN 0
    ELSE Limb.bits * (Len(x) - 1)
         + (CHOOSE b \in 1..Limb.bits : 2^(b - 1) <= x[Len(x)] /\ x[Len(x)] < 2^b)

\* x * 2^s
ShiftLeft(x, s) ==
    IF x = <<>> THEN <<>>
    ELSE [i \in 1..(s \div Limb.bits) |-> 0] \o MulAdd(x, 2^(s % Limb.bits), <<>>)

\* x \div 2^s
ShiftRight(x, s) ==
    IF s \div Limb.bits >= Len(x) THEN <<>>
    ELSE DivRem(SubSeq(x, (s \div Limb.bits) + 1, Len(x)), 2^(s % Limb.bits)).q

\* bit i of x (bit 0 is the lowest)
TestBit(x, i) ==
    /\ i >= 0
    /\ i \div Limb.bits < Len(x)
    /\ (x[(i \div Limb.bits) + 1] \div 2^(i % Limb.bits)) % 2 = 1

\* x % 2^s = 0
LowBitsZero(x, s) ==
    \A i \in 1..Len(x) :
        /\ i <= s \div Limb.bits => x[i] = 0
        /\ i = (s \div Limb.bits) + 1 => x[i] % 2^(s % Limb.bits) = 0

\* the number of zero bits below the lowest one bit of x > 0
TrailingZeros(x) == CHOOSE i \in 0..BitLen(x) : TestBit(x, i) /\ LowBitsZero(x, i)

IsOdd(x) == x # <<>> /\ x[1] % 2 = 1

\* x * 10^k
RECURSIVE MulPow10(_, _)
MulPow10(x, k) ==
    IF x = <<>> THEN <<>>
    ELSE IF k <= 5 THEN MulAdd(x, 10^k, <<>>)
    ELSE MulPow10(MulPow10(x, k \div 2), k - (k \div 2))

\* the quotient of a division, and whether it left a remainder
Inexact(result) == [q |-> result.q, inexact |-> result.r # 0]

\* the quotient of the second of two divisions, and whether either was inexact
InexactAfter(rest, before) == [q |-> rest.q, inexact |-> before \/ rest.inexact]

\* x \div 10^k, and whether the division left a remainder
RECURSIVE DivPow10(_, _)
DivPow10(x, k) ==
    IF k <= 5 THEN Inexact(DivRem(x, 10^k))
    ELSE LET first == DivPow10(x, k \div 2)
         IN  After(first,
                   InexactAfter(DivPow10(first.q, k - (k \div 2)), first.inexact))

-----------------------------------------------------------------------------
(* Python floats: IEEE 754 doubles.  A finite double is (-1)^neg * m * 2^e   *)
(* with m odd (m = 0 and e = 0 for a zero): 4.5 is 9 * 2^-1.                 *)

Nan       == [t |-> "float", k |-> "nan", neg |-> FALSE, m |-> <<>>, e |-> 0]
Inf(neg)  == [t |-> "float", k |-> "inf", neg |-> neg, m |-> <<>>, e |-> 0]
Fin(neg, m, e) == [t |-> "float", k |-> "fin", neg |-> neg, m |-> m, e |-> e]
Zero(neg) == Fin(neg, <<>>, 0)

\* sys.float_info: 53 bits of mantissa, the least double 2^-1074, every double
\* below 2^1024
Double == [mant_dig |-> 53, min_exp |-> -1074, max_exp |-> 1024]

\* q * 2^e2 with an odd mantissa, q having tz zero bits at its end
Odd(neg, q, e2, tz) == Fin(neg, ShiftRight(q, tz), e2 + tz)

\* the double of q * 2^e2, a value that needs no rounding
Canon(neg, q, e2) ==
    IF q = <<>> THEN Zero(neg)
    ELSE IF BitLen(q) + e2 > Double.max_exp THEN Inf(neg)
    ELSE Odd(neg, q, e2, TrailingZeros(q))

\* round half to even: q is the value cut off, roundBit the first bit cut off,
\* sticky whether anything lies below it
RoundUp(q, roundBit, sticky) ==
    IF roundBit /\ (sticky \/ IsOdd(q)) THEN BigAdd(q, <<1>>) ELSE q

\* the double nearest to (x + rest) * 2^e2, the rest below 1 and not 0 when
\* sticky: 53 bits are kept, fewer below 2^-1022, and the value is rounded half
\* to even
Round53(neg, x, e2, sticky) ==
    LET cut == Max(BitLen(x) - Double.mant_dig, Double.min_exp - e2)
    IN  Canon(neg,
              IF cut <= 0 THEN x
              ELSE RoundUp(ShiftRight(x, cut), TestBit(x, cut - 1),
                           sticky \/ ~LowBitsZero(x, cut - 1)),
              IF cut <= 0 THEN e2 ELSE e2 + cut)

Digits == (* "0123456789" *) <<48, 49, 50, 51, 52, 53, 54, 55, 56, 57>>

IsDigit(c) == \E d \in 1..10 : Digits[d] = c

DigitVal(c) == (CHOOSE d \in 1..10 : Digits[d] = c) - 1

\* the number a string of at most 9 digits denotes ("" denotes 0)
RECURSIVE IntVal(_)
IntVal(ds) ==
    IF ds = <<>> THEN 0
    ELSE 10 * IntVal(SubSeq(ds, 1, Len(ds) - 1)) + DigitVal(ds[Len(ds)])

\* the number a string of digits of any length denotes
RECURSIVE BigOfDigits(_)
BigOfDigits(ds) ==
    IF Len(ds) <= 4 THEN BigOfNat(IntVal(ds))
    ELSE LET high == BigOfDigits(SubSeq(ds, 1, Len(ds) \div 2))
             low  == BigOfDigits(SubSeq(ds, (Len(ds) \div 2) + 1, Len(ds)))
         IN  After(high, MulAdd(MulPow10(high, Len(ds) - (Len(ds) \div 2)), 1, low))

\* ds without the zeros at its front
Significant(ds) ==
    IF \A i \in 1..Len(ds) : ds[i] = 48 THEN <<>>
    ELSE SubSeq(ds, Least({i \in 1..Len(ds) : ds[i] # 48}), Len(ds))

\* x * 10^e10 as q * 2^-shift, q cut to an integer: q, and whether something
\* was cut off
ScaleDecimal(x, e10, shift) ==
    IF e10 >= 0 THEN [q |-> MulPow10(x, e10), inexact |-> FALSE]
    ELSE DivPow10(ShiftLeft(x, shift), 0 - e10)

\* the double nearest to scaled.q * 2^e2, and something more when inexact
RoundScaled(neg, scaled, e2) == Round53(neg, scaled.q, e2, scaled.inexact)

\* sig being digits without a zero at the front
SignificantToDouble(neg, sig, e10) ==
    IF sig = <<>> THEN Zero(neg)
    ELSE IF Len(sig) + e10 > 310 THEN Inf(neg)
    ELSE IF Len(sig) + e10 < -330 THEN Zero(neg)
    ELSE RoundScaled(neg,
                     ScaleDecimal(BigOfDigits(sig), e10, 64 - 4 * e10),
                     IF e10 >= 0 THEN 0 ELSE 4 * e10 - 64)

\* the double nearest to ds * 10^e10, ds a string of digits: what strtod makes
\* of a decimal numeral.  A numeral of 310 digits or more is beyond every
\* double, one below 10^-330 is nearer to 0 than to any other
DecimalToDouble(neg, ds, e10) == SignificantToDouble(neg, Significant(ds), e10)

IsNan(x) == x.k = "nan"
IsZero(x) == x.k = "fin" /\ x.m = <<>>

\* the sum of the numbers a and b with the signs given: its sign and magnitude
SignedSum(aNeg, a, bNeg, b) ==
    IF aNeg = bNeg THEN [neg |-> aNeg, mag |-> BigAdd(a, b)]
    ELSE IF BigCmp(a, b) = 0 THEN [neg |-> FALSE, mag |-> <<>>]
    ELSE IF BigCmp(a, b) = 1 THEN [neg |-> aNeg, mag |-> BigSub(a, b)]
    ELSE [neg |-> bNeg, mag |-> BigSub(b, a)]

\* the double nearest to sum.mag * 2^e2, with the sign of sum
RoundSum(sum, e2) == Round53(sum.neg, sum.mag, e2, FALSE)

\* the exact x + y of two finite floats that are not zero, as a number times
\* 2^e2, e2 the lesser exponent
AlignedSum(x, y, e2) ==
    SignedSum(x.neg, ShiftLeft(x.m, x.e - e2), y.neg, ShiftLeft(y.m, y.e - e2))

\* x + y of two floats: the exact sum, rounded once
DblAdd(x, y) ==
    IF IsNan(x) \/ IsNan(y) THEN Nan
    ELSE IF x.k = "inf" THEN (IF y.k = "inf" /\ y.neg # x.neg THEN Nan ELSE x)
    ELSE IF y.k = "inf" THEN y
    ELSE IF IsZero(x) /\ IsZero(y) THEN Zero(x.neg /\ y.neg)
    ELSE IF IsZero(x) THEN y
    ELSE IF IsZero(y) THEN x
    ELSE RoundSum(AlignedSum(x, y, Min(x.e, y.e)), Min(x.e, y.e))

\* x / n of a float and an int 0 < n < 2^17: the quotient to 80 bits and more,
\* rounded once
DblDivNat(x, n) ==
    IF x.k # "fin" \/ IsZero(x) THEN x
    ELSE RoundScaled(x.neg, Inexact(DivRem(ShiftLeft(x.m, 80), n)), x.e - 80)

\* -1, 0, 1 as x is below, equal to, above y; neither is a nan
Sign(z) == IF IsZero(z) THEN 0 ELSE IF z.neg THEN -1 ELSE 1

\* of two finite floats that are not zero, top being the places of their highest
\* bits: the magnitudes compared
CmpTops(x, y, topx, topy, least) ==
    IF topx # topy THEN (IF topx < topy THEN -1 ELSE 1)
    ELSE BigCmp(ShiftLeft(x.m, x.e - least), ShiftLeft(y.m, y.e - least))

CmpAbs(x, y) ==
    IF x.k = "inf" THEN (IF y.k = "inf" THEN 0 ELSE 1)
    ELSE IF y.k = "inf" THEN -1
    ELSE CmpTops(x, y, BitLen(x.m) + x.e, BitLen(y.m) + y.e, Min(x.e, y.e))

CmpSigns(x, y, signx, signy) ==
    IF signx # signy THEN (IF signx < signy THEN -1 ELSE 1)
    ELSE IF signx = 0 THEN 0
    ELSE signx * CmpAbs(x, y)

DblCmp(x, y) == CmpSigns(x, y, Sign(x), Sign(y))

\* x < y of two floats: every comparison with a nan is false
DblLt(x, y) == ~IsNan(x) /\ ~IsNan(y) /\ DblCmp(x, y) = -1

-----------------------------------------------------------------------------
(* Floats and ints as text.                                                  *)

\* the n decimal digits of x < 10^n, zeros at the front
RECURSIVE PadDigits(_, _)
PadDigits(x, n) ==
    IF n <= 4
    THEN [i \in 1..n |->
             Digits[(((LimbAt(x, 1) + Limb.base * LimbAt(x, 2)) \div 10^(n - i)) % 10) + 1]]
    ELSE LET high == DivPow10(x, n \div 2).q
         IN  After(high, PadDigits(high, n - (n \div 2))
                         \o PadDigits(BigSub(x, MulPow10(high, n \div 2)), n \div 2))

\* the decimal digits of x, "0" for 0.  (x has fewer digits than
\* BitLen(x) * 30103 / 100000 + 1, log10(2) being less than 0.30103.)
BigToDigits(x) ==
    IF x = <<>> THEN (* "0" *) <<48>>
    ELSE Significant(PadDigits(x, ((BitLen(x) * 30103) \div 100000) + 1))

Zeros(n) == [i \in 1..n |-> 48]

SignOf(neg) == IF neg THEN (* "-" *) <<45>> ELSE <<>>

\* scaled / 2^cut, rounded half to even
Rescale(scaled, cut) ==
    IF cut <= 0 THEN ShiftLeft(scaled, 0 - cut)
    ELSE RoundUp(ShiftRight(scaled, cut), TestBit(scaled, cut - 1),
                 ~LowBitsZero(scaled, cut - 1))

\* the digits ds, with zeros at the front when they are p or fewer
PadTo(ds, p) == IF Len(ds) <= p THEN Zeros(p + 1 - Len(ds)) \o ds ELSE ds

\* the digits with the point before the last p of them
PointBefore(ds, p) ==
    SubSeq(ds, 1, Len(ds) - p)
    \o (IF p = 0 THEN <<>> ELSE (* "." *) <<46>> \o SubSeq(ds, Len(ds) - p + 1, Len(ds)))

\* format(x, ".pf") of a float: p digits after the point, the value rounded
\* half to even
FormatFixed(x, p) ==
    IF x.k = "nan" THEN (* "nan" *) <<110, 97, 110>>
    ELSE IF x.k = "inf" THEN SignOf(x.neg) \o (* "inf" *) <<105, 110, 102>>
    ELSE SignOf(x.neg)
         \o PointBefore(PadTo(BigToDigits(Rescale(MulPow10(x.m, p), 0 - x.e)), p), p)

\* floor(m * 2^e * 10^j), and whether something was cut off
FloorScaled(m, e, j) ==
    IF j < 0 THEN DivPow10(ShiftLeft(m, Max(e, 0)), 0 - j)
    ELSE IF e >= 0 THEN [q |-> ShiftLeft(MulPow10(m, j), e), inexact |-> FALSE]
    ELSE [q |-> ShiftRight(MulPow10(m, j), 0 - e),
          inexact |-> ~LowBitsZero(MulPow10(m, j), 0 - e)]

\* guess, or the number next to it: first is the value scaled by 20 - guess
\* digits, which has 20 digits when the guess is right
PointNear(guess, first) ==
    IF BigCmp(first, MulPow10(<<1>>, 20)) >= 0 THEN guess + 1
    ELSE IF BigCmp(first, MulPow10(<<1>>, 19)) < 0 THEN guess - 1
    ELSE guess

PointGuess(m, e, guess) == PointNear(guess, FloorScaled(m, e, 20 - guess).q)

\* the number of digits m * 2^e has before its decimal point (0 or less for a
\* value below 0.1): the value has 20 digits when it is scaled by them; the
\* estimate from the bit length is right, or off by one
DecimalPoint(m, e) == PointGuess(m, e, (((BitLen(m) + e - 1) * 30103) \div 100000) + 1)

\* the decimal n * 10^(point - k) reads back as m * 2^e
ReadsBack(n, point, k, m, e) ==
    DecimalToDouble(FALSE, BigToDigits(n), point - k) = Fin(FALSE, m, e)

\* the first of tries that reads back, reads telling which do, or <<>>
FirstReading(tries, reads) ==
    IF reads[1] THEN tries[1] ELSE IF reads[2] THEN tries[2] ELSE <<>>

NearestOf(tries, point, k, m, e) ==
    FirstReading(tries, [i \in 1..2 |-> ReadsBack(tries[i], point, k, m, e)])

\* of low and high, the one that reads back as m * 2^e, the nearer one (high
\* when up) tried first, or <<>> when neither does
Nearest(point, m, e, k, low, high, up) ==
    NearestOf(IF up THEN <<high, low>> ELSE <<low, high>>, point, k, m, e)

\* rest is above the half, or at the half of an odd or inexact low
RoundsUp(rest, half, inexact, low) ==
    BigCmp(rest, half) > 0 \/ (BigCmp(rest, half) = 0 /\ (inexact \/ IsOdd(low)))

\* low being the first k of the 20 digits
CandidateOf(digits20, inexact, point, m, e, k, low) ==
    Nearest(point, m, e, k, low, BigAdd(low, <<1>>),
            RoundsUp(BigSub(digits20, MulPow10(low, 20 - k)), MulPow10(<<5>>, 19 - k),
                     inexact, low))

\* the k-digit decimal that reads back as m * 2^e, or <<>> when there is none:
\* of the two next to the value the nearer one is tried first.  digits20 is the
\* value scaled to 20 digits, inexact whether it has more
ShortCandidate(digits20, inexact, point, m, e, k) ==
    CandidateOf(digits20, inexact, point, m, e, k, DivPow10(digits20, 20 - k).q)

\* the digits ds without the zeros at their end, ds being k digits or, after a
\* carry, k + 1
WithoutZeros(ds, point, k) ==
    [digits |-> SubSeq(ds, 1, CHOOSE i \in 1..Len(ds) :
                                 ds[i] # 48 /\ \A j \in (i + 1)..Len(ds) : ds[j] = 48),
     decpt  |-> point + (Len(ds) - k)]

\* found[k] is the k-digit decimal that reads back, or <<>>: the shortest
ShortestFound(found, point, k) == WithoutZeros(BigToDigits(found[k]), point, k)

ShortestAmong(found, point) ==
    ShortestFound(found, point,
                  CHOOSE k \in DOMAIN found :
                      found[k] # <<>> /\ \A j \in 1..(k - 1) : found[j] = <<>>)

ShortestFrom(m, e, point, scaled) ==
    ShortestAmong([k \in 1..17 |->
                      ShortCandidate(scaled.q, scaled.inexact, point, m, e, k)], point)

ShortestAt(m, e, point) == ShortestFrom(m, e, point, FloorScaled(m, e, 20 - point))

\* the shortest decimal that reads back as m * 2^e (17 digits always do): its
\* digits d1 d2 ... without zeros at the end, and decpt, the value being
\* 0.d1d2... * 10^decpt
ShortestDecimal(m, e) == ShortestAt(m, e, DecimalPoint(m, e))

\* the digits ds with the point behind the first, and the exponent exp
Scientific(ds, exp) ==
    <<ds[1]>> \o (IF Len(ds) > 1 THEN (* "." *) <<46>> \o Tail(ds) ELSE <<>>)
    \o (IF exp < 0 THEN (* "e-" *) <<101, 45>> ELSE (* "e+" *) <<101, 43>>)
    \o (IF exp < 10 /\ exp > -10 THEN (* "0" *) <<48>> ELSE <<>>)
    \o BigToDigits(BigOfNat(IF exp < 0 THEN 0 - exp ELSE exp))

\* the value 0.d1d2... * 10^decpt as repr writes it: with an exponent when the
\* point lies far from the digits
Positional(ds, decpt) ==
    IF decpt <= -4 \/ decpt > 16 THEN Scientific(ds, decpt - 1)
    ELSE IF decpt <= 0 THEN (* "0." *) <<48, 46>> \o Zeros(0 - decpt) \o ds
    ELSE IF decpt < Len(ds)
    THEN SubSeq(ds, 1, decpt) \o (* "." *) <<46>> \o SubSeq(ds, decpt + 1, Len(ds))
    ELSE ds \o Zeros(decpt - Len(ds)) \o (* ".0" *) <<46, 48>>

ShortText(short) == Positional(short.digits, short.decpt)

\* repr(x) and str(x) of a float: the shortest decimal that reads back as x
FloatRepr(x) ==
    IF x.k = "nan" THEN (* "nan" *) <<110, 97, 110>>
    ELSE IF x.k = "inf" THEN SignOf(x.neg) \o (* "inf" *) <<105, 110, 102>>
    ELSE IF x.m = <<>> THEN SignOf(x.neg) \o (* "0.0" *) <<48, 46, 48>>
    ELSE SignOf(x.neg) \o ShortText(ShortestDecimal(x.m, x.e))

-----------------------------------------------------------------------------
(* float(s) of a str.  The tables are those of Unicode 14.0.0, the database *)
(* of the interpreter.                                                       *)

\* the blanks of ASCII that float() drops at the ends of the text: tab, line
\* feed, vertical tab, form feed, carriage return and the space
AsciiSpace == (9..13) \cup {32}

\* the characters float() takes for a blank: the blanks of ASCII and every
\* character beyond ASCII of str.isspace(): U+0085, U+00A0, U+1680,
\* U+2000..U+200A, U+2028, U+2029, U+202F, U+205F and U+3000.  (U+001C..U+001F
\* are blanks of str.isspace() that float() does not take.)
Whitespace ==
    AsciiSpace \cup {133, 160, 5760} \cup (8192..8202) \cup {8232, 8233, 8239, 8287, 12288}

\* the decimal digits beyond ASCII, which float() reads as digits: the zero of
\* each of the 65 families; the digits 1..9 of a family follow its zero
UnicodeDigits ==
    <<1632, 1776, 1984, 2406, 2534, 2662, 2790, 2918, 3046, 3174, 3302, 3430, 3558, 3664,
      3792, 3872, 4160, 4240, 6112, 6160, 6470, 6608, 6784, 6800, 6992, 7088, 7232, 7248,
      42528, 43216, 43264, 43472, 43504, 43600, 44016, 65296, 66720, 68912, 69734, 69872,
      69942, 70096, 70384, 70736, 70864, 71248, 71360, 71472, 71904, 72016, 72784, 73040,
      73120, 92768, 92864, 93008, 120782, 120792, 120802, 120812, 120822, 123200, 123632,
      125264, 130032>>

\* the character float() parses in the place of c: c itself below U+007F, a
\* space for a blank beyond, the ASCII digit for a decimal digit beyond, and
\* "?" for every other character
ToAscii(c) ==
    IF c < 127 THEN c
    ELSE IF c \in Whitespace THEN 32
    ELSE IF \E f \in 1..Len(UnicodeDigits) : c - UnicodeDigits[f] \in 0..9
    THEN 48 + c - UnicodeDigits[CHOOSE f \in 1..Len(UnicodeDigits) :
                                     c - UnicodeDigits[f] \in 0..9]
    ELSE 63

\* the number of digits of s from position i on
DigitRun(s, i) ==
    IF \A j \in i..Len(s) : IsDigit(s[j]) THEN Max(Len(s) + 1 - i, 0)
    ELSE Least({j \in i..Len(s) : ~IsDigit(s[j])}) - i

\* s without the ASCII blanks at its ends
Strip(s) ==
    IF \A i \in 1..Len(s) : s[i] \in AsciiSpace THEN <<>>
    ELSE SubSeq(s, Least({i \in 1..Len(s) : s[i] \notin AsciiSpace}),
                CHOOSE i \in 1..Len(s) :
                    s[i] \notin AsciiSpace /\ \A j \in (i + 1)..Len(s) : s[j] \in AsciiSpace)

\* the ASCII character c in lower case
Lower(c) == IF 65 <= c /\ c <= 90 THEN c + 32 ELSE c

\* the exponent part of s at position i ("e" or "E", a sign or none, digits):
\* its value and the position behind it, which is i where there is no exponent.
\* An exponent of more than six digits is as good as 10^6
ExponentAt(s, i) ==
    LET signed == i + 1 <= Len(s) /\ s[i + 1] \in {43, 45}
        from   == IF signed THEN i + 2 ELSE i + 1
        run    == DigitRun(s, from)
        ds     == Significant(SubSeq(s, from, from + run - 1))
        val    == IF Len(ds) > 6 THEN 10^6 ELSE IntVal(ds)
    IN  IF i <= Len(s) /\ s[i] \in {101, 69} /\ run > 0
        THEN [val |-> IF signed /\ s[i + 1] = 45 THEN 0 - val ELSE val, end |-> from + run]
        ELSE [val |-> 0, end |-> i]

\* a digits, a point or none, b digits and the exponent
NumeralOf(neg, s, a, b, exponent) ==
    IF a + b = 0 \/ exponent.end # Len(s) + 1 THEN Raise("ValueError")
    ELSE Return(DecimalToDouble(neg, SubSeq(s, 1, a) \o SubSeq(s, a + 2, a + 1 + b),
                                exponent.val - b))

\* the numeral s without its sign: digits, a point or none, digits, an exponent
\* or none, with a digit before the exponent and nothing behind the numeral
Numeral(neg, s) ==
    LET a     == DigitRun(s, 1)
        point == a < Len(s) /\ s[a + 1] = 46
        b     == IF point THEN DigitRun(s, a + 2) ELSE 0
    IN  NumeralOf(neg, s, a, b, ExponentAt(s, (IF point THEN a + 1 + b ELSE a) + 1))

\* float(s) of a str s: the underscores between digits are dropped, then the
\* blanks at the ends; what is left is a sign or none and "inf", "infinity" or
\* "nan" in any case, or a numeral.  Anything else is a ValueError
ParseFloat(s) ==
    LET ascii    == [i \in 1..Len(s) |-> ToAscii(s[i])]
        under    == \A i \in 1..Len(s) :
                        ascii[i] = 95 => /\ i > 1 /\ IsDigit(ascii[i - 1])
                                          /\ i < Len(s) /\ IsDigit(ascii[i + 1])
        stripped == Strip(SelectSeq(ascii, LAMBDA c : c # 95))
        signed   == stripped # <<>> /\ stripped[1] \in {43, 45}
        neg      == signed /\ stripped[1] = 45
        body     == IF signed THEN Tail(stripped) ELSE stripped
        lower    == [i \in 1..Len(body) |-> Lower(body[i])]
    IN  IF ~under \/ stripped = <<>> THEN Raise("ValueError")
        ELSE IF lower \in {(* "inf" *) <<105, 110, 102>>, (* "infinity" *) <<105, 110, 102, 105,
                110, 105, 116, 121>>}
        THEN Return(Inf(neg))
        ELSE IF lower = (* "nan" *) <<110, 97, 110>> THEN Return(Nan)
        ELSE Numeral(neg, body)

-----------------------------------------------------------------------------
(* Python values, as json.loads delivers them, and the built-ins applied to  *)
(* them.                                                                     *)

None         == [t |-> "None"]
JBool(b)     == [t |-> "bool", b |-> b]
JInt(n)      == [t |-> "int", neg |-> n < 0, mag |-> BigOfNat(IF n < 0 THEN 0 - n ELSE n)]
JStr(s)      == [t |-> "str", s |-> s]
JList(items) == [t |-> "list", items |-> items]
JDict(pairs) == [t |-> "dict", pairs |-> pairs]

\* the int of a numeral of any length (json.loads reads up to 4300 digits)
JBigInt(digits) == [t |-> "int", neg |-> FALSE, mag |-> BigOfDigits(digits)]

\* the float of a JSON numeral with a fraction or an exponent: json.loads reads
\* it with float()
JFloat(numeral) == ParseFloat(numeral).v

\* key in d
Has(d, key) == \E i \in 1..Len(d.pairs) : d.pairs[i][1] = key

\* d.get(key, default) of a dict d
Get(d, key, default) ==
    IF Has(d, key) THEN d.pairs[CHOOSE i \in 1..Len(d.pairs) : d.pairs[i][1] = key][2]
    ELSE default

\* the double x, or an OverflowError when it is beyond the doubles
WithinDoubles(x) == IF x.k = "inf" THEN Raise("OverflowError") ELSE Return(x)

\* float(v): a float is itself, an int the nearest double (an OverflowError
\* beyond the doubles), True and False are 1.0 and 0.0, a str is parsed;
\* None, a list and a dict are a TypeError
float(v) ==
    CASE v.t = "float" -> Return(v)
      [] v.t = "int"   -> WithinDoubles(Round53(v.neg, v.mag, 0, FALSE))
      [] v.t = "bool"  -> Return(IF v.b THEN Fin(FALSE, <<1>>, 0) ELSE Zero(FALSE))
      [] v.t = "str"   -> ParseFloat(v.s)
      [] OTHER         -> Raise("TypeError")

\* bool(v): None, False, zero, "", [] and {} are false, a nan is true
Truthy(v) ==
    CASE v.t = "None"  -> FALSE
      [] v.t = "bool"  -> v.b
      [] v.t = "int"   -> v.mag # <<>>
      [] v.t = "float" -> ~IsZero(v)
      [] v.t = "str"   -> v.s # <<>>
      [] v.t = "list"  -> v.items # <<>>
      [] v.t = "dict"  -> v.pairs # <<>>

\* len(v)
PyLen(v) ==
    CASE v.t = "str"  -> Return(Len(v.s))
      [] v.t = "list" -> Return(Len(v.items))
      [] v.t = "dict" -> Return(Len(v.pairs))
      [] OTHER        -> Raise("TypeError")

\* v[:n]: a str and a list can be sliced, nothing else
SliceTo(v, n) ==
    CASE v.t = "str"  -> Return(JStr(PySlice(v.s, 0, n)))
      [] v.t = "list" -> Return(JList(PySlice(v.items, 0, n)))
      [] OTHER        -> Raise("TypeError")

\* the characters beyond ASCII that str.isprintable() refuses, as ranges
\* <<first, last>>: the controls, the format characters, the separators, the
\* surrogates, the private use and the unassigned code points
NonPrintable ==
    << <<128, 160>>, <<173, 173>>, <<888, 889>>, <<896, 899>>, <<907, 907>>, <<909, 909>>,
       <<930, 930>>, <<1328, 1328>>, <<1367, 1368>>, <<1419, 1420>>, <<1424, 1424>>,
       <<1480, 1487>>, <<1515, 1518>>, <<1525, 1541>>, <<1564, 1564>>, <<1757, 1757>>,
       <<1806, 1807>>, <<1867, 1868>>, <<1970, 1983>>, <<2043, 2044>>, <<2094, 2095>>,
       <<2111, 2111>>, <<2140, 2141>>, <<2143, 2143>>, <<2155, 2159>>, <<2191, 2199>>,
       <<2274, 2274>>, <<2436, 2436>>, <<2445, 2446>>, <<2449, 2450>>, <<2473, 2473>>,
       <<2481, 2481>>, <<2483, 2485>>, <<2490, 2491>>, <<2501, 2502>>, <<2505, 2506>>,
       <<2511, 2518>>, <<2520, 2523>>, <<2526, 2526>>, <<2532, 2533>>, <<2559, 2560>>,
       <<2564, 2564>>, <<2571, 2574>>, <<2577, 2578>>, <<2601, 2601>>, <<2609, 2609>>,
       <<2612, 2612>>, <<2615, 2615>>, <<2618, 2619>>, <<2621, 2621>>, <<2627, 2630>>,
       <<2633, 2634>>, <<2638, 2640>>, <<2642, 2648>>, <<2653, 2653>>, <<2655, 2661>>,
       <<2679, 2688>>, <<2692, 2692>>, <<2702, 2702>>, <<2706, 2706>>, <<2729, 2729>>,
       <<2737, 2737>>, <<2740, 2740>>, <<2746, 2747>>, <<2758, 2758>>, <<2762, 2762>>,
       <<2766, 2767>>, <<2769, 2783>>, <<2788, 2789>>, <<2802, 2808>>, <<2816, 2816>>,
       <<2820, 2820>>, <<2829, 2830>>, <<2833, 2834>>, <<2857, 2857>>, <<2865, 2865>>,
       <<2868, 2868>>, <<2874, 2875>>, <<2885, 2886>>, <<2889, 2890>>, <<2894, 2900>>,
       <<2904, 2907>>, <<2910, 2910>>, <<2916, 2917>>, <<2936, 2945>>, <<2948, 2948>>,
       <<2955, 2957>>, <<2961, 2961>>, <<2966, 2968>>, <<2971, 2971>>, <<2973, 2973>>,
       <<2976, 2978>>, <<2981, 2983>>, <<2987, 2989>>, <<3002, 3005>>, <<3011, 3013>>,
       <<3017, 3017>>, <<3022, 3023>>, <<3025, 3030>>, <<3032, 3045>>, <<3067, 3071>>,
       <<3085, 3085>>, <<3089, 3089>>, <<3113, 3113>>, <<3130, 3131>>, <<3141, 3141>>,
       <<3145, 3145>>, <<3150, 3156>>, <<3159, 3159>>, <<3163, 3164>>, <<3166, 3167>>,
       <<3172, 3173>>, <<3184, 3190>>, <<3213, 3213>>, <<3217, 3217>>, <<3241, 3241>>,
       <<3252, 3252>>, <<3258, 3259>>, <<3269, 3269>>, <<3273, 3273>>, <<3278, 3284>>,
       <<3287, 3292>>, <<3295, 3295>>, <<3300, 3301>>, <<3312, 3312>>, <<3315, 3327>>,
       <<3341, 3341>>, <<3345, 3345>>, <<3397, 3397>>, <<3401, 3401>>, <<3408, 3411>>,
       <<3428, 3429>>, <<3456, 3456>>, <<3460, 3460>>, <<3479, 3481>>, <<3506, 3506>>,
       <<3516, 3516>>, <<3518, 3519>>, <<3527, 3529>>, <<3531, 3534>>, <<3541, 3541>>,
       <<3543, 3543>>, <<3552, 3557>>, <<3568, 3569>>, <<3573, 3584>>, <<3643, 3646>>,
       <<3676, 3712>>, <<3715, 3715>>, <<3717, 3717>>, <<3723, 3723>>, <<3748, 3748>>,
       <<3750, 3750>>, <<3774, 3775>>, <<3781, 3781>>, <<3783, 3783>>, <<3790, 3791>>,
       <<3802, 3803>>, <<3808, 3839>>, <<3912, 3912>>, <<3949, 3952>>, <<3992, 3992>>,
       <<4029, 4029>>, <<4045, 4045>>, <<4059, 4095>>, <<4294, 4294>>, <<4296, 4300>>,
       <<4302, 4303>>, <<4681, 4681>>, <<4686, 4687>>, <<4695, 4695>>, <<4697, 4697>>,
       <<4702, 4703>>, <<4745, 4745>>, <<4750, 4751>>, <<4785, 4785>>, <<4790, 4791>>,
       <<4799, 4799>>, <<4801, 4801>>, <<4806, 4807>>, <<4823, 4823>>, <<4881, 4881>>,
       <<4886, 4887>>, <<4955, 4956>>, <<4989, 4991>>, <<5018, 5023>>, <<5110, 5111>>,
       <<5118, 5119>>, <<5760, 5760>>, <<5789, 5791>>, <<5881, 5887>>, <<5910, 5918>>,
       <<5943, 5951>>, <<5972, 5983>>, <<5997, 5997>>, <<6001, 6001>>, <<6004, 6015>>,
       <<6110, 6111>>, <<6122, 6127>>, <<6138, 6143>>, <<6158, 6158>>, <<6170, 6175>>,
       <<6265, 6271>>, <<6315, 6319>>, <<6390, 6399>>, <<6431, 6431>>, <<6444, 6447>>,
       <<6460, 6463>>, <<6465, 6467>>, <<6510, 6511>>, <<6517, 6527>>, <<6572, 6575>>,
       <<6602, 6607>>, <<6619, 6621>>, <<6684, 6685>>, <<6751, 6751>>, <<6781, 6782>>,
       <<6794, 6799>>, <<6810, 6815>>, <<6830, 6831>>, <<6863, 6911>>, <<6989, 6991>>,
       <<7039, 7039>>, <<7156, 7163>>, <<7224, 7226>>, <<7242, 7244>>, <<7305, 7311>>,
       <<7355, 7356>>, <<7368, 7375>>, <<7419, 7423>>, <<7958, 7959>>, <<7966, 7967>>,
       <<8006, 8007>>, <<8014, 8015>>, <<8024, 8024>>, <<8026, 8026>>, <<8028, 8028>>,
       <<8030, 8030>>, <<8062, 8063>>, <<8117, 8117>>, <<8133, 8133>>, <<8148, 8149>>,
       <<8156, 8156>>, <<8176, 8177>>, <<8181, 8181>>, <<8191, 8207>>, <<8232, 8239>>,
       <<8287, 8303>>, <<8306, 8307>>, <<8335, 8335>>, <<8349, 8351>>, <<8385, 8399>>,
       <<8433, 8447>>, <<8588, 8591>>, <<9255, 9279>>, <<9291, 9311>>, <<11124, 11125>>,
       <<11158, 11158>>, <<11508, 11512>>, <<11558, 11558>>, <<11560, 11564>>,
       <<11566, 11567>>, <<11624, 11630>>, <<11633, 11646>>, <<11671, 11679>>,
       <<11687, 11687>>, <<11695, 11695>>, <<11703, 11703>>, <<11711, 11711>>,
       <<11719, 11719>>, <<11727, 11727>>, <<11735, 11735>>, <<11743, 11743>>,
       <<11870, 11903>>, <<11930, 11930>>, <<12020, 12031>>, <<12246, 12271>>,
       <<12284, 12288>>, <<12352, 12352>>, <<12439, 12440>>, <<12544, 12548>>,
       <<12592, 12592>>, <<12687, 12687>>, <<12772, 12783>>, <<12831, 12831>>,
       <<42125, 42127>>, <<42183, 42191>>, <<42540, 42559>>, <<42744, 42751>>,
       <<42955, 42959>>, <<42962, 42962>>, <<42964, 42964>>, <<42970, 42993>>,
       <<43053, 43055>>, <<43066, 43071>>, <<43128, 43135>>, <<43206, 43213>>,
       <<43226, 43231>>, <<43348, 43358>>, <<43389, 43391>>, <<43470, 43470>>,
       <<43482, 43485>>, <<43519, 43519>>, <<43575, 43583>>, <<43598, 43599>>,
       <<43610, 43611>>, <<43715, 43738>>, <<43767, 43776>>, <<43783, 43784>>,
       <<43791, 43792>>, <<43799, 43807>>, <<43815, 43815>>, <<43823, 43823>>,
       <<43884, 43887>>, <<44014, 44015>>, <<44026, 44031>>, <<55204, 55215>>,
       <<55239, 55242>>, <<55292, 63743>>, <<64110, 64111>>, <<64218, 64255>>,
       <<64263, 64274>>, <<64280, 64284>>, <<64311, 64311>>, <<64317, 64317>>,
       <<64319, 64319>>, <<64322, 64322>>, <<64325, 64325>>, <<64451, 64466>>,
       <<64912, 64913>>, <<64968, 64974>>, <<64976, 65007>>, <<65050, 65055>>,
       <<65107, 65107>>, <<65127, 65127>>, <<65132, 65135>>, <<65141, 65141>>,
       <<65277, 65280>>, <<65471, 65473>>, <<65480, 65481>>, <<65488, 65489>>,
       <<65496, 65497>>, <<65501, 65503>>, <<65511, 65511>>, <<65519, 65531>>,
       <<65534, 65535>>, <<65548, 65548>>, <<65575, 65575>>, <<65595, 65595>>,
       <<65598, 65598>>, <<65614, 65615>>, <<65630, 65663>>, <<65787, 65791>>,
       <<65795, 65798>>, <<65844, 65846>>, <<65935, 65935>>, <<65949, 65951>>,
       <<65953, 65999>>, <<66046, 66175>>, <<66205, 66207>>, <<66257, 66271>>,
       <<66300, 66303>>, <<66340, 66348>>, <<66379, 66383>>, <<66427, 66431>>,
       <<66462, 66462>>, <<66500, 66503>>, <<66518, 66559>>, <<66718, 66719>>,
       <<66730, 66735>>, <<66772, 66775>>, <<66812, 66815>>, <<66856, 66863>>,
       <<66916, 66926>>, <<66939, 66939>>, <<66955, 66955>>, <<66963, 66963>>,
       <<66966, 66966>>, <<66978, 66978>>, <<66994, 66994>>, <<67002, 67002>>,
       <<67005, 67071>>, <<67383, 67391>>, <<67414, 67423>>, <<67432, 67455>>,
       <<67462, 67462>>, <<67505, 67505>>, <<67515, 67583>>, <<67590, 67591>>,
       <<67593, 67593>>, <<67638, 67638>>, <<67641, 67643>>, <<67645, 67646>>,
       <<67670, 67670>>, <<67743, 67750>>, <<67760, 67807>>, <<67827, 67827>>,
       <<67830, 67834>>, <<67868, 67870>>, <<67898, 67902>>, <<67904, 67967>>,
       <<68024, 68027>>, <<68048, 68049>>, <<68100, 68100>>, <<68103, 68107>>,
       <<68116, 68116>>, <<68120, 68120>>, <<68150, 68151>>, <<68155, 68158>>,
       <<68169, 68175>>, <<68185, 68191>>, <<68256, 68287>>, <<68327, 68330>>,
       <<68343, 68351>>, <<68406, 68408>>, <<68438, 68439>>, <<68467, 68471>>,
       <<68498, 68504>>, <<68509, 68520>>, <<68528, 68607>>, <<68681, 68735>>,
       <<68787, 68799>>, <<68851, 68857>>, <<68904, 68911>>, <<68922, 69215>>,
       <<69247, 69247>>, <<69290, 69290>>, <<69294, 69295>>, <<69298, 69375>>,
       <<69416, 69423>>, <<69466, 69487>>, <<69514, 69551>>, <<69580, 69599>>,
       <<69623, 69631>>, <<69710, 69713>>, <<69750, 69758>>, <<69821, 69821>>,
       <<69827, 69839>>, <<69865, 69871>>, <<69882, 69887>>, <<69941, 69941>>,
       <<69960, 69967>>, <<70007, 70015>>, <<70112, 70112>>, <<70133, 70143>>,
       <<70162, 70162>>, <<70207, 70271>>, <<70279, 70279>>, <<70281, 70281>>,
       <<70286, 70286>>, <<70302, 70302>>, <<70314, 70319>>, <<70379, 70383>>,
       <<70394, 70399>>, <<70404, 70404>>, <<70413, 70414>>, <<70417, 70418>>,
       <<70441, 70441>>, <<70449, 70449>>, <<70452, 70452>>, <<70458, 70458>>,
       <<70469, 70470>>, <<70473, 70474>>, <<70478, 70479>>, <<70481, 70486>>,
       <<70488, 70492>>, <<70500, 70501>>, <<70509, 70511>>, <<70517, 70655>>,
       <<70748, 70748>>, <<70754, 70783>>, <<70856, 70863>>, <<70874, 71039>>,
       <<71094, 71095>>, <<71134, 71167>>, <<71237, 71247>>, <<71258, 71263>>,
       <<71277, 71295>>, <<71354, 71359>>, <<71370, 71423>>, <<71451, 71452>>,
       <<71468, 71471>>, <<71495, 71679>>, <<71740, 71839>>, <<71923, 71934>>,
       <<71943, 71944>>, <<71946, 71947>>, <<71956, 71956>>, <<71959, 71959>>,
       <<71990, 71990>>, <<71993, 71994>>, <<72007, 72015>>, <<72026, 72095>>,
       <<72104, 72105>>, <<72152, 72153>>, <<72165, 72191>>, <<72264, 72271>>,
       <<72355, 72367>>, <<72441, 72703>>, <<72713, 72713>>, <<72759, 72759>>,
       <<72774, 72783>>, <<72813, 72815>>, <<72848, 72849>>, <<72872, 72872>>,
       <<72887, 72959>>, <<72967, 72967>>, <<72970, 72970>>, <<73015, 73017>>,
       <<73019, 73019>>, <<73022, 73022>>, <<73032, 73039>>, <<73050, 73055>>,
       <<73062, 73062>>, <<73065, 73065>>, <<73103, 73103>>, <<73106, 73106>>,
       <<73113, 73119>>, <<73130, 73439>>, <<73465, 73647>>, <<73649, 73663>>,
       <<73714, 73726>>, <<74650, 74751>>, <<74863, 74863>>, <<74869, 74879>>,
       <<75076, 77711>>, <<77811, 77823>>, <<78895, 82943>>, <<83527, 92159>>,
       <<92729, 92735>>, <<92767, 92767>>, <<92778, 92781>>, <<92863, 92863>>,
       <<92874, 92879>>, <<92910, 92911>>, <<92918, 92927>>, <<92998, 93007>>,
       <<93018, 93018>>, <<93026, 93026>>, <<93048, 93052>>, <<93072, 93759>>,
       <<93851, 93951>>, <<94027, 94030>>, <<94088, 94094>>, <<94112, 94175>>,
       <<94181, 94191>>, <<94194, 94207>>, <<100344, 100351>>, <<101590, 101631>>,
       <<101641, 110575>>, <<110580, 110580>>, <<110588, 110588>>, <<110591, 110591>>,
       <<110883, 110927>>, <<110931, 110947>>, <<110952, 110959>>, <<111356, 113663>>,
       <<113771, 113775>>, <<113789, 113791>>, <<113801, 113807>>, <<113818, 113819>>,
       <<113824, 118527>>, <<118574, 118575>>, <<118599, 118607>>, <<118724, 118783>>,
       <<119030, 119039>>, <<119079, 119080>>, <<119155, 119162>>, <<119275, 119295>>,
       <<119366, 119519>>, <<119540, 119551>>, <<119639, 119647>>, <<119673, 119807>>,
       <<119893, 119893>>, <<119965, 119965>>, <<119968, 119969>>, <<119971, 119972>>,
       <<119975, 119976>>, <<119981, 119981>>, <<119994, 119994>>, <<119996, 119996>>,
       <<120004, 120004>>, <<120070, 120070>>, <<120075, 120076>>, <<120085, 120085>>,
       <<120093, 120093>>, <<120122, 120122>>, <<120127, 120127>>, <<120133, 120133>>,
       <<120135, 120137>>, <<120145, 120145>>, <<120486, 120487>>, <<120780, 120781>>,
       <<121484, 121498>>, <<121504, 121504>>, <<121520, 122623>>, <<122655, 122879>>,
       <<122887, 122887>>, <<122905, 122906>>, <<122914, 122914>>, <<122917, 122917>>,
       <<122923, 123135>>, <<123181, 123183>>, <<123198, 123199>>, <<123210, 123213>>,
       <<123216, 123535>>, <<123567, 123583>>, <<123642, 123646>>, <<123648, 124895>>,
       <<124903, 124903>>, <<124908, 124908>>, <<124911, 124911>>, <<124927, 124927>>,
       <<125125, 125126>>, <<125143, 125183>>, <<125260, 125263>>, <<125274, 125277>>,
       <<125280, 126064>>, <<126133, 126208>>, <<126270, 126463>>, <<126468, 126468>>,
       <<126496, 126496>>, <<126499, 126499>>, <<126501, 126502>>, <<126504, 126504>>,
       <<126515, 126515>>, <<126520, 126520>>, <<126522, 126522>>, <<126524, 126529>>,
       <<126531, 126534>>, <<126536, 126536>>, <<126538, 126538>>, <<126540, 126540>>,
       <<126544, 126544>>, <<126547, 126547>>, <<126549, 126550>>, <<126552, 126552>>,
       <<126554, 126554>>, <<126556, 126556>>, <<126558, 126558>>, <<126560, 126560>>,
       <<126563, 126563>>, <<126565, 126566>>, <<126571, 126571>>, <<126579, 126579>>,
       <<126584, 126584>>, <<126589, 126589>>, <<126591, 126591>>, <<126602, 126602>>,
       <<126620, 126624>>, <<126628, 126628>>, <<126634, 126634>>, <<126652, 126703>>,
       <<126706, 126975>>, <<127020, 127023>>, <<127124, 127135>>, <<127151, 127152>>,
       <<127168, 127168>>, <<127184, 127184>>, <<127222, 127231>>, <<127406, 127461>>,
       <<127491, 127503>>, <<127548, 127551>>, <<127561, 127567>>, <<127570, 127583>>,
       <<127590, 127743>>, <<128728, 128732>>, <<128749, 128751>>, <<128765, 128767>>,
       <<128884, 128895>>, <<128985, 128991>>, <<129004, 129007>>, <<129009, 129023>>,
       <<129036, 129039>>, <<129096, 129103>>, <<129114, 129119>>, <<129160, 129167>>,
       <<129198, 129199>>, <<129202, 129279>>, <<129620, 129631>>, <<129646, 129647>>,
       <<129653, 129655>>, <<129661, 129663>>, <<129671, 129679>>, <<129709, 129711>>,
       <<129723, 129727>>, <<129734, 129743>>, <<129754, 129759>>, <<129768, 129775>>,
       <<129783, 129791>>, <<129939, 129939>>, <<129995, 130031>>, <<130042, 131071>>,
       <<173792, 173823>>, <<177977, 177983>>, <<178206, 178207>>, <<183970, 183983>>,
       <<191457, 194559>>, <<195102, 196607>>, <<201547, 917759>>, <<918000, 1114111>> >>

\* the n lower-case hexadecimal digits of c
HexDigits == (* "0123456789abcdef" *) <<48, 49, 50, 51, 52, 53, 54, 55, 56, 57, 97, 98, 99, 100,
        101, 102>>

Hex(c, n) == [i \in 1..n |-> HexDigits[((c \div 16^(n - i)) % 16) + 1]]

\* the escapes repr() writes by a letter: backslash, tab, line feed and
\* carriage return
Escapes ==
    << <<92, (* "\\\\" *) <<92, 92>>>>,
       <<9, (* "\\t" *) <<92, 116>>>>,
       <<10, (* "\\n" *) <<92, 110>>>>,
       <<13, (* "\\r" *) <<92, 114>>>> >>

\* how repr() writes c inside the quotes: the quote behind a backslash, the
\* escapes by a letter, every other control of ASCII as \xNN, the rest of ASCII
\* as it is; beyond ASCII a printable character as it is and every other one as
\* \xNN, \uNNNN or \UNNNNNNNN, whichever is wide enough
Escape(c, quote) ==
    IF c = quote THEN <<92, c>>
    ELSE IF \E i \in 1..Len(Escapes) : Escapes[i][1] = c
    THEN Escapes[CHOOSE i \in 1..Len(Escapes) : Escapes[i][1] = c][2]
    ELSE IF c < 32 \/ c = 127 THEN (* "\\x" *) <<92, 120>> \o Hex(c, 2)
    ELSE IF c < 127 THEN <<c>>
    ELSE IF \A i \in 1..Len(NonPrintable) : c < NonPrintable[i][1] \/ c > NonPrintable[i][2]
    THEN <<c>>
    ELSE IF c <= 255 THEN (* "\\x" *) <<92, 120>> \o Hex(c, 2)
    ELSE IF c <= 65535 THEN (* "\\u" *) <<92, 117>> \o Hex(c, 4)
    ELSE (* "\\U" *) <<92, 85>> \o Hex(c, 8)

\* repr(s) of a str: in single quotes, in double quotes when s holds a single
\* quote and no double quote
StrRepr(s) ==
    LET has(c) == \E i \in 1..Len(s) : s[i] = c
        quote  == IF has(39) /\ ~has(34) THEN 34 ELSE 39   \* 39 is ', 34 is "
    IN  <<quote>> \o Concat([i \in 1..Len(s) |-> Escape(s[i], quote)]) \o <<quote>>

\* str(v) and repr(v) of an int
IntStr(v) == SignOf(v.neg) \o BigToDigits(v.mag)

\* repr(v)
RECURSIVE Repr(_)
Repr(v) ==
    CASE v.t = "None"  -> (* "None" *) <<78, 111, 110, 101>>
      [] v.t = "bool"  -> IF v.b THEN (* "True" *) <<84, 114, 117, 101>> ELSE (* "False" *) <<70,
              97, 108, 115, 101>>
      [] v.t = "int"   -> IntStr(v)
      [] v.t = "float" -> FloatRepr(v)
      [] v.t = "str"   -> StrRepr(v.s)
      [] v.t = "list"  ->
             (* "[" *) <<91>> \o Join((* ", " *) <<44, 32>>, [i \in 1..Len(v.items) |-> Repr(v.items[i])])
             \o (* "]" *) <<93>>
      [] v.t = "dict"  ->
             (* "{" *) <<123>> \o Join((* ", " *) <<44, 32>>, [i \in 1..Len(v.pairs) |->
                                        StrRepr(v.pairs[i][1]) \o (* ": " *) <<58, 32>>
                                        \o Repr(v.pairs[i][2])])
             \o (* "}" *) <<125>>

\* str(v), which is also what f"{v}" writes: a str is itself, every other value
\* its repr
Str(v) == IF v.t = "str" THEN v.s ELSE Repr(v)

\* the float of the outcome x with p digits after the point, or the exception
FixedOf(x, p) == IF x.t = "raise" THEN x ELSE Return(FormatFixed(x.v, p))

\* f"{v:.2f}": an int and a bool are formatted as the float of them, a str is a
\* ValueError, None, a list and a dict are a TypeError
Format2f(v) ==
    CASE v.t \in {"float", "int", "bool"} -> FixedOf(float(v), 2)
      [] v.t = "str" -> Raise("ValueError")
      [] OTHER       -> Raise("TypeError")

-----------------------------------------------------------------------------
(* split_and_send *)

TELEGRAM_MAX_LEN == 4000

\* bounds of the texts tried
MaxFullChunks == 2
MaxPeriod == 4

Alphabet == (* "abcdef" *) <<97, 98, 99, 100, 101, 102>>

\* a text of length len that repeats the first `period` letters
MakeText(len, period) == [i \in 1..len |-> Alphabet[((i - 1) % period) + 1]]

Remainders == {0, 1, 1000, TELEGRAM_MAX_LEN - 1}

TextLens == {q * TELEGRAM_MAX_LEN + r : q \in 0..MaxFullChunks, r \in Remainders}

Texts == {MakeText(len, period) : len \in TextLens, period \in 1..MaxPeriod}

\* a slip: one character more than the limit
Chunk_off_by_one(t, st) == PySlice(t, st, st + TELEGRAM_MAX_LEN + 1)

\* chunk = text[start:start + TELEGRAM_MAX_LEN]
Chunk(t, st) == PySlice(t, st, st + TELEGRAM_MAX_LEN)

SplitInit ==
    /\ start = 0
    /\ sent = <<>>
    /\ splitPc = "while"

\* one iteration of the while loop: send the chunk, advance start
split_and_send_loop ==
    /\ splitPc = "while"
    /\ start < Len(text)
    /\ sent' = Append(sent, Chunk(text, start))
    /\ start' = start + TELEGRAM_MAX_LEN
    /\ UNCHANGED <<text, splitPc>>
    /\ UNCHANGED <<ratingVars, rankVars, fetchVars, formatVars, handlerVars, chartVars>>

\* the loop condition fails: the function returns
split_and_send_return ==
    /\ splitPc = "while"
    /\ ~(start < Len(text))
    /\ splitPc' = "done"
    /\ UNCHANGED <<text, start, sent>>
    /\ UNCHANGED <<ratingVars, rankVars, fetchVars, formatVars, handlerVars, chartVars>>

\* the whole loop, from start = st on: the chunks handed to send_fn, in order
RECURSIVE SplitFrom(_, _)
SplitFrom(t, st) ==
    IF st < Len(t) THEN <<Chunk(t, st)>> \o SplitFrom(t, st + TELEGRAM_MAX_LEN)
    ELSE <<>>

\* split_and_send(chat, text), as the handlers call it: what chat.reply_text is
\* given, call by call
split_and_send(t) == SplitFrom(t, 0)

-----------------------------------------------------------------------------
(* get_property_rating *)

\* sum(ratings): the floats added to the int 0 from left to right, each sum
\* rounded (0 + x is x, but for x = -0.0, which it turns into 0.0)
RECURSIVE SumSeq(_)
SumSeq(xs) ==
    IF xs = <<>> THEN Zero(FALSE)
    ELSE DblAdd(SumSeq(SubSeq(xs, 1, Len(xs) - 1)), xs[Len(xs)])

\* try: ratings.append(float(r)) / except (ValueError, TypeError): continue,
\* converted being the outcome of float(r)
AppendFloat(ratings, converted) ==
    IF converted.t = "return" THEN Return(Append(ratings.v, converted.v))
    ELSE IF converted.exc \in {"ValueError", "TypeError"} THEN ratings
    ELSE converted

\* the body of `for r in [airbnb, booking]` applied to the ratings so far:
\* ValueError and TypeError are passed over, any other exception leaves the
\* function
AppendRating(ratings, r) ==
    IF ratings.t = "raise" THEN ratings
    ELSE IF r = None THEN ratings
    ELSE AppendFloat(ratings, float(r))

\* airbnb = p.get("airbnb_rating", p.get("airbnb")), and booking likewise
AirbnbOf(p)  == Get(p, (* "airbnb_rating" *) <<97, 105, 114, 98, 110, 98, 95, 114, 97, 116, 105,
        110, 103>>, Get(p, (* "airbnb" *) <<97, 105, 114, 98, 110, 98>>, None))
BookingOf(p) == Get(p, (* "booking_rating" *) <<98, 111, 111, 107, 105, 110, 103, 95, 114, 97,
        116, 105, 110, 103>>, Get(p, (* "booking" *) <<98, 111, 111, 107, 105, 110, 103>>, None))

\* return 0.0 if not ratings, else sum(ratings) / len(ratings)
MeanOf(ratings) ==
    IF ratings.t = "raise" THEN ratings
    ELSE IF ratings.v = <<>> THEN Return(Zero(FALSE))
    ELSE Return(DblDivNat(SumSeq(ratings.v), Len(ratings.v)))

\* a slip: the alias keys are not consulted
get_property_rating_no_alias(p) ==
    IF p.t # "dict" THEN Raise("AttributeError")
    ELSE MeanOf(AppendRating(AppendRating(Return(<<>>), Get(p, (* "airbnb_rating" *) <<97, 105,
            114, 98, 110, 98, 95, 114, 97, 116, 105, 110, 103>>, None)),
                             Get(p, (* "booking_rating" *) <<98, 111, 111, 107, 105, 110, 103,
                                     95, 114, 97, 116, 105, 110, 103>>, None)))

\* get_property_rating(p): p.get is an AttributeError when p is no dict
get_property_rating(p) ==
    IF p.t # "dict" THEN Raise("AttributeError")
    ELSE MeanOf(AppendRating(AppendRating(Return(<<>>), AirbnbOf(p)), BookingOf(p)))

RatingKeys == <<(* "airbnb_rating" *) <<97, 105, 114, 98, 110, 98, 95, 114, 97, 116, 105, 110,
        103>>, (* "airbnb" *) <<97, 105, 114, 98, 110, 98>>, (* "booking_rating" *) <<98, 111,
        111, 107, 105, 110, 103, 95, 114, 97, 116, 105, 110, 103>>, (* "booking" *) <<98, 111,
        111, 107, 105, 110, 103>>>>

\* the values tried under the rating keys: floats, ints, True, strs that
\* float() reads (among them one with a blank and one with digits beyond ASCII)
\* and strs it rejects, null and nested values
RatingValues ==
    { None, JBool(TRUE), JInt(0), JInt(4), JInt(-1), JBigInt((* "1" *) <<49>> \o Zeros(400)),
      JFloat((* "4.5" *) <<52, 46, 53>>), JFloat((* "5.0" *) <<53, 46, 48>>), JFloat((* "0.1" *) <<
              48, 46, 49>>), JFloat((* "0.2" *) <<48, 46, 50>>), JFloat((* "0.7" *) <<48, 46, 55>>),
      JFloat((* "1e308" *) <<49, 101, 51, 48, 56>>),
      JStr((* "4.5" *) <<52, 46, 53>>), JStr((* "3" *) <<51>>), JStr((* "4.567" *) <<52, 46, 53,
              54, 55>>), JStr((* " 4.5 " *) <<32, 52, 46, 53, 32>>), JStr((* "+4.5" *) <<43, 52,
              46, 53>>),
      JStr((* "1e3" *) <<49, 101, 51>>), JStr((* "1_0" *) <<49, 95, 48>>), JStr((* "nan" *) <<
              110, 97, 110>>), JStr((* "-Infinity" *) <<45, 73, 110, 102, 105, 110, 105, 116,
              121>>),
      JStr((* "\u20284" *) <<8232, 52>>), JStr((* "\u0967.\u096b" *) <<2407, 46, 2411>>),
      JStr((* "N/A" *) <<78, 47, 65>>), JStr(<<>>), JStr((* "4,5" *) <<52, 44, 53>>),
      JList(<<>>), JDict(<<>>) }

\* the values tried under a key whose alias is present too
ShadowValues == {None, JInt(4), JStr((* "N/A" *) <<78, 47, 65>>)}

\* the pairs of one sub-rating, primary being the key and alias its alias: none,
\* the one key, the other, or both
SidePairs(primary, alias, values) ==
    {<<>>}
    \cup {<< <<primary, v>> >> : v \in values}
    \cup {<< <<alias, v>> >> : v \in values}
    \cup {<< <<primary, v>>, <<alias, w>> >> : v \in ShadowValues, w \in values}

\* the records of an Airbnb side and a Booking side
RecordsOver(values) ==
    {JDict(a \o b) : a \in SidePairs(RatingKeys[1], RatingKeys[2], values),
                     b \in SidePairs(RatingKeys[3], RatingKeys[4], values)}

RatingRecords == RecordsOver(RatingValues)

RatingInit ==
    /\ score = NotCalled

\* score = get_property_rating(rec)
RateProperty ==
    /\ score = NotCalled
    /\ score' = get_property_rating(rec)
    /\ UNCHANGED rec
    /\ UNCHANGED <<splitVars, rankVars, fetchVars, formatVars, handlerVars, chartVars>>

-----------------------------------------------------------------------------
(* get_top_rated_properties *)

Reverse(xs) == [i \in 1..Len(xs) |-> xs[Len(xs) + 1 - i]]

\* the one comparison the sort makes of two entries (p, score): key(a) < key(b),
\* which is false whenever a score is a nan
KeyLess(a, b) == DblLt(a[2], b[2])

\* count_run: the length of the run xs begins with, a run being entries none of
\* which is less than the one before it, or entries each of which is less than
\* the one before it (a descending run)
Descending(xs) == Len(xs) > 1 /\ KeyLess(xs[2], xs[1])

CountRun(xs) ==
    Least({i \in 2..(Len(xs) + 1) :
              i = Len(xs) + 1 \/ KeyLess(xs[i], xs[i - 1]) # Descending(xs)}) - 1

\* binarysort's search: where the pivot goes among xs[l..r-1]
RECURSIVE BinarySearch(_, _, _, _)
BinarySearch(xs, pivot, l, r) ==
    IF l >= r THEN l
    ELSE IF KeyLess(pivot, xs[l + ((r - l) \div 2)])
         THEN BinarySearch(xs, pivot, l, l + ((r - l) \div 2))
    ELSE BinarySearch(xs, pivot, l + ((r - l) \div 2) + 1, r)

\* one step of binarysort: xs[at] is put where the search among the entries
\* before it says
InsertPivot(xs, at) ==
    LET to == BinarySearch(xs, xs[at], 1, at)
    IN  SubSeq(xs, 1, to - 1) \o <<xs[at]>> \o SubSeq(xs, to, at - 1)
        \o SubSeq(xs, at + 1, Len(xs))

\* binarysort: the entries lo..hi are inserted one after the other
RECURSIVE BinarySort(_, _, _)
BinarySort(xs, lo, hi) ==
    IF lo > hi THEN xs
    ELSE IF lo = hi THEN InsertPivot(xs, lo)
    ELSE LET first == BinarySort(xs, lo, (lo + hi) \div 2)
         IN  After(first, BinarySort(first, ((lo + hi) \div 2) + 1, hi))

\* merge_compute_minrun: the least length of a run of a list of n entries, n
\* itself below 64 and otherwise a number from 32 to 64
RECURSIVE MinRun(_, _)
MinRun(n, r) == IF n >= 64 THEN MinRun(n \div 2, IF n % 2 = 1 THEN 1 ELSE r) ELSE n + r

\* the next run of the entries xs still to sort, of k entries: the n entries of
\* the run xs begins with, in ascending order (a descending run is reversed),
\* and the entries up to the k-th inserted into them by binarysort
NextRun(xs, n, k) ==
    BinarySort((IF Descending(xs) THEN Reverse(SubSeq(xs, 1, n)) ELSE SubSeq(xs, 1, n))
               \o SubSeq(xs, n + 1, k),
               n + 1, k)

Last(xs) == xs[Len(xs)]

Front(xs) == SubSeq(xs, 1, Len(xs) - 1)

\* whether the entry e goes before key: in gallop_left when e < key, in
\* gallop_right unless key < e
Before(key, e, left) == IF left THEN KeyLess(e, key) ELSE ~KeyLess(key, e)

\* a gallop from the entry a[hint] (counted from 0) goes towards the end (up)
\* over entries that go before key, and towards the front over entries that do
\* not: whether it goes on over the entry at the offset ofs
GallopOn(key, a, hint, left, up, ofs) ==
    Before(key, a[(IF up THEN hint + ofs ELSE hint - ofs) + 1], left) = up

\* the offsets 1, 3, 7, 15, ... are tried until the gallop stops or the offset
\* is no longer below maxofs: the last offset it went over and the one at which
\* it stopped, which is at most maxofs
RECURSIVE GallopOfs(_, _, _, _, _, _, _, _)
GallopOfs(key, a, hint, left, up, maxofs, lastofs, ofs) ==
    IF ofs < maxofs /\ GallopOn(key, a, hint, left, up, ofs)
    THEN GallopOfs(key, a, hint, left, up, maxofs, ofs, 2 * ofs + 1)
    ELSE [lastofs |-> lastofs, ofs |-> Min(ofs, maxofs)]

\* the binary search that ends a gallop, among the entries lastofs..ofs-1 of a
\* (counted from 0): the number of entries that go before key
RECURSIVE GallopSearch(_, _, _, _, _)
GallopSearch(key, a, left, lastofs, ofs) ==
    IF lastofs >= ofs THEN ofs
    ELSE IF Before(key, a[lastofs + ((ofs - lastofs) \div 2) + 1], left)
    THEN GallopSearch(key, a, left, lastofs + ((ofs - lastofs) \div 2) + 1, ofs)
    ELSE GallopSearch(key, a, left, lastofs, lastofs + ((ofs - lastofs) \div 2))

\* the search between the offsets g of a gallop from hint
GallopBetween(key, a, left, hint, up, g) ==
    IF up THEN GallopSearch(key, a, left, g.lastofs + hint + 1, g.ofs + hint)
    ELSE GallopSearch(key, a, left, hint - g.ofs + 1, hint - g.lastofs)

\* the gallop from a[hint], up when a[hint] goes before key
GallopFrom(key, a, hint, left, up) ==
    GallopBetween(key, a, left, hint, up,
                  GallopOfs(key, a, hint, left, up,
                            IF up THEN Len(a) - hint ELSE hint + 1, 0, 1))

\* gallop_left (left) and gallop_right of (key, a, n, hint) with n = Len(a): the
\* number k of entries of a before the place of key, which is left of the
\* entries equal to key for gallop_left (a[k-1] < key <= a[k]) and right of them
\* for gallop_right (a[k-1] <= key < a[k]), where the comparisons are consistent
Gallop(key, a, hint, left) == GallopFrom(key, a, hint, left, Before(key, a[hint + 1], left))

GallopLeft(key, a, hint) == Gallop(key, a, hint, TRUE)

GallopRight(key, a, hint) == Gallop(key, a, hint, FALSE)

\* the number of wins in a row of one run at which a merge begins to gallop
MIN_GALLOP == 7

\* A merge of the runs a and b in progress: out are the entries merged so far, a
\* and b the entries of the runs not yet merged, acount and bcount the wins in a
\* row of each run, min_gallop the local of that name, saved the min_gallop of
\* the merge state, and pc the place: "straight" (one entry at a time), "gallop"
\* or the label at which the merge ends.
MergeEnded(st) == st.pc \in {"Succeed", "CopyA", "CopyB"}

At(st, pc) == [st EXCEPT !.pc = pc]

ToGallop(st) == [st EXCEPT !.pc = "gallop", !.min_gallop = @ + 1]

\* the head of the galloping loop: min_gallop -= min_gallop > 1, and saved
EnterGallop(st) ==
    LET mg == IF st.min_gallop > 1 THEN st.min_gallop - 1 ELSE st.min_gallop
    IN  [st EXCEPT !.min_gallop = mg, !.saved = mg]

\* the foot of the galloping loop: it goes on while a run won MIN_GALLOP times
\* or more, and otherwise galloping is left at the price of one
LeaveGallop(st) ==
    IF st.acount >= MIN_GALLOP \/ st.bcount >= MIN_GALLOP THEN st
    ELSE [st EXCEPT !.pc = "straight", !.min_gallop = @ + 1, !.saved = st.min_gallop + 1,
                    !.acount = 0, !.bcount = 0]

\* merge_lo, one turn of the loop that takes one entry at a time, from the front
MergeLoStraight(st) ==
    IF KeyLess(st.b[1], st.a[1])
    THEN LET next == [st EXCEPT !.out = Append(@, st.b[1]), !.b = Tail(@),
                                !.bcount = @ + 1, !.acount = 0]
         IN  IF next.b = <<>> THEN At(next, "Succeed")
             ELSE IF next.bcount >= next.min_gallop THEN ToGallop(next)
             ELSE next
    ELSE LET next == [st EXCEPT !.out = Append(@, st.a[1]), !.a = Tail(@),
                                !.acount = @ + 1, !.bcount = 0]
         IN  IF Len(next.a) = 1 THEN At(next, "CopyB")
             ELSE IF next.acount >= next.min_gallop THEN ToGallop(next)
             ELSE next

\* merge_lo, the second half of a turn of the galloping loop: the k entries of b
\* that go before a[0], then a[0]
MergeLoGallopB(st, k) ==
    LET taken == [st EXCEPT !.bcount = k, !.out = @ \o SubSeq(st.b, 1, k),
                            !.b = SubSeq(@, k + 1, Len(@))]
        next  == [taken EXCEPT !.out = Append(@, taken.a[1]), !.a = Tail(@)]
    IN  IF k > 0 /\ taken.b = <<>> THEN At(taken, "Succeed")
        ELSE IF Len(next.a) = 1 THEN At(next, "CopyB")
        ELSE LeaveGallop(next)

\* merge_lo, the first half of a turn of the galloping loop: the k entries of a
\* that go before b[0], then b[0]
MergeLoGallopA(st, k) ==
    LET taken == [st EXCEPT !.acount = k, !.out = @ \o SubSeq(st.a, 1, k),
                            !.a = SubSeq(@, k + 1, Len(@))]
        next  == [taken EXCEPT !.out = Append(@, taken.b[1]), !.b = Tail(@)]
    IN  IF k > 0 /\ Len(taken.a) = 1 THEN At(taken, "CopyB")
        ELSE IF k > 0 /\ taken.a = <<>> THEN At(taken, "Succeed")
        ELSE IF next.b = <<>> THEN At(next, "Succeed")
        ELSE MergeLoGallopB(next, GallopLeft(next.a[1], next.b, 0))

MergeLoGallop(st) == MergeLoGallopA(st, GallopRight(st.b[1], st.a, 0))

\* merge_hi, one turn of the loop that takes one entry at a time, from the end
MergeHiStraight(st) ==
    IF KeyLess(Last(st.b), Last(st.a))
    THEN LET next == [st EXCEPT !.out = <<Last(st.a)>> \o @, !.a = Front(@),
                                !.acount = @ + 1, !.bcount = 0]
         IN  IF next.a = <<>> THEN At(next, "Succeed")
             ELSE IF next.acount >= next.min_gallop THEN ToGallop(next)
             ELSE next
    ELSE LET next == [st EXCEPT !.out = <<Last(st.b)>> \o @, !.b = Front(@),
                                !.bcount = @ + 1, !.acount = 0]
         IN  IF Len(next.b) = 1 THEN At(next, "CopyA")
             ELSE IF next.bcount >= next.min_gallop THEN ToGallop(next)
             ELSE next

\* merge_hi, the second half of a turn of the galloping loop: the k entries of b
\* that go behind the last of a, then the last of a
MergeHiGallopB(st, k) ==
    LET nb    == Len(st.b)
        taken == [st EXCEPT !.bcount = k, !.out = SubSeq(st.b, nb - k + 1, nb) \o @,
                            !.b = SubSeq(@, 1, nb - k)]
        next  == [taken EXCEPT !.out = <<Last(taken.a)>> \o @, !.a = Front(@)]
    IN  IF k > 0 /\ Len(taken.b) = 1 THEN At(taken, "CopyA")
        ELSE IF k > 0 /\ taken.b = <<>> THEN At(taken, "Succeed")
        ELSE IF next.a = <<>> THEN At(next, "Succeed")
        ELSE LeaveGallop(next)

\* merge_hi, the first half of a turn of the galloping loop: the k entries of a
\* that go behind the last of b, then the last of b
MergeHiGallopA(st, k) ==
    LET na    == Len(st.a)
        taken == [st EXCEPT !.acount = k, !.out = SubSeq(st.a, na - k + 1, na) \o @,
                            !.a = SubSeq(@, 1, na - k)]
        next  == [taken EXCEPT !.out = <<Last(taken.b)>> \o @, !.b = Front(@)]
    IN  IF k > 0 /\ taken.a = <<>> THEN At(taken, "Succeed")
        ELSE IF Len(next.b) = 1 THEN At(next, "CopyA")
        ELSE MergeHiGallopB(next, Len(next.b) - GallopLeft(Last(next.a), next.b,
                                                           Len(next.b) - 1))

MergeHiGallop(st) ==
    MergeHiGallopA(st, Len(st.a) - GallopRight(Last(st.b), st.a, Len(st.a) - 1))

\* one turn of the loop the merge is in
MergeStep(st, low) ==
    IF st.pc = "straight"
    THEN (IF low THEN MergeLoStraight(st) ELSE MergeHiStraight(st))
    ELSE (IF low THEN MergeLoGallop(EnterGallop(st)) ELSE MergeHiGallop(EnterGallop(st)))

\* n turns, or fewer when the merge ends before
RECURSIVE MergeSteps(_, _, _)
MergeSteps(st, n, low) ==
    IF MergeEnded(st) \/ n = 0 THEN st
    ELSE IF n = 1 THEN MergeStep(st, low)
    ELSE LET half == MergeSteps(st, n \div 2, low)
         IN  After(half, MergeSteps(half, n - (n \div 2), low))

\* the state in which the loops of a merge begin
MergeStart(out, a, b, min_gallop) ==
    [pc |-> "straight", out |-> out, a |-> a, b |-> b, acount |-> 0, bcount |-> 0,
     min_gallop |-> min_gallop, saved |-> min_gallop]

\* merge_lo before its loops: the first entry of b is the first of the merge
MergeLoBegin(first) ==
    IF first.b = <<>> THEN At(first, "Succeed")
    ELSE IF Len(first.a) = 1 THEN At(first, "CopyB")
    ELSE first

\* merge_hi before its loops: the last entry of a is the last of the merge
MergeHiBegin(first) ==
    IF first.a = <<>> THEN At(first, "Succeed")
    ELSE IF Len(first.b) = 1 THEN At(first, "CopyA")
    ELSE first

MergeBegin(a, b, min_gallop, low) ==
    IF low THEN MergeLoBegin(MergeStart(<<b[1]>>, a, Tail(b), min_gallop))
    ELSE MergeHiBegin(MergeStart(<<Last(a)>>, Front(a), b, min_gallop))

\* merge_lo at its end: at Succeed the rest of a goes before the rest of b, at
\* CopyB the rest of b before the one entry left of a
MergeLoEnd(end) ==
    [items |-> IF end.pc = "Succeed" THEN end.out \o end.a \o end.b
               ELSE end.out \o end.b \o end.a,
     min_gallop |-> end.saved]

\* merge_hi at its end: at Succeed the rest of a goes before the rest of b, at
\* CopyA the one entry left of b before the rest of a
MergeHiEnd(end) ==
    [items |-> IF end.pc = "Succeed" THEN end.a \o end.b \o end.out
               ELSE end.b \o end.a \o end.out,
     min_gallop |-> end.saved]

MergeEnd(end, low) == IF low THEN MergeLoEnd(end) ELSE MergeHiEnd(end)

\* merge_lo(ms, ssa, na, ssb, nb) (low), which merges from the front, and
\* merge_hi(ms, ssa, na, ssb, nb), which merges from the end: the runs a and b
\* merged and the min_gallop the merge leaves
Merge(a, b, min_gallop, low) ==
    MergeEnd(MergeSteps(MergeBegin(a, b, min_gallop, low), Len(a) + Len(b), low), low)

\* the merge of merge_at of the runs a and b, k being the number of entries of a
\* that are in place already (those b[0] is not less than) and nb the number of
\* entries of b that are not (those less than the last of a, or none when a's
\* entries are all in place): merge_lo where what is left of a is not longer
\* than what is left of b, and merge_hi otherwise
Trimmed(a, b, k, nb, merged) ==
    [items |-> SubSeq(a, 1, k) \o merged.items \o SubSeq(b, nb + 1, Len(b)),
     min_gallop |-> merged.min_gallop]

MergeTrimmed(a, b, min_gallop, k, nb) ==
    IF k = Len(a) \/ nb <= 0 THEN [items |-> a \o b, min_gallop |-> min_gallop]
    ELSE Trimmed(a, b, k, nb,
                 Merge(SubSeq(a, k + 1, Len(a)), SubSeq(b, 1, nb), min_gallop,
                       Len(a) - k <= nb))

MergeRuns(a, b, min_gallop, k) ==
    MergeTrimmed(a, b, min_gallop, k,
                 IF k = Len(a) THEN 0 ELSE GallopLeft(Last(a), b, Len(b) - 1))

\* merge_at(ms, i): the pending runs i and i+1 become one, which keeps the power
\* of run i.  ms is the merge state: the pending runs, each with its entries
\* and its power, and min_gallop
Merged(ms, i, merged) ==
    [pending    |-> SubSeq(ms.pending, 1, i - 1)
                    \o <<[items |-> merged.items, power |-> ms.pending[i].power]>>
                    \o SubSeq(ms.pending, i + 2, Len(ms.pending)),
     min_gallop |-> merged.min_gallop]

MergePair(ms, i, a, b) == Merged(ms, i, MergeRuns(a, b, ms.min_gallop, GallopRight(b[1], a, 0)))

MergeAt(ms, i) == MergePair(ms, i, ms.pending[i].items, ms.pending[i + 1].items)

\* powerloop(s1, n1, n2, n) from a = 2*s1 + n1 and b = a + n1 + n2: the number
\* of bits of a/n and b/n up to the first one in which they differ
RECURSIVE PowerLoop(_, _, _, _)
PowerLoop(a, b, n, result) ==
    IF a >= n THEN PowerLoop(2 * (a - n), 2 * (b - n), n, result + 1)
    ELSE IF b >= n THEN result + 1
    ELSE PowerLoop(2 * a, 2 * b, n, result + 1)

\* the loop of found_new_run: the last two runs are merged while the power of
\* the run below the last exceeds the power found
RECURSIVE MergeAbove(_, _)
MergeAbove(ms, power) ==
    IF Len(ms.pending) > 1 /\ ms.pending[Len(ms.pending) - 1].power > power
    THEN MergeAbove(MergeAt(ms, Len(ms.pending) - 1), power)
    ELSE [ms EXCEPT !.pending[Len(ms.pending)].power = power]

\* the number of entries of the runs
RECURSIVE RunsLen(_)
RunsLen(pending) ==
    IF pending = <<>> THEN 0 ELSE Len(pending[1].items) + RunsLen(Tail(pending))

\* found_new_run(ms, n2), a run of n2 entries having been found behind the
\* pending runs of a list of n entries
FoundNewRun(ms, n2, n) ==
    IF ms.pending = <<>> THEN ms
    ELSE LET s1 == RunsLen(Front(ms.pending))
             n1 == Len(Last(ms.pending).items)
         IN  MergeAbove(ms, PowerLoop(2 * s1 + n1, 2 * s1 + n1 + n1 + n2, n, 0))

\* merge_force_collapse: the runs are merged until one is left, the last two or,
\* where the run before them is shorter than the last, the two before the last
RECURSIVE ForceCollapse(_)
ForceCollapse(ms) ==
    IF Len(ms.pending) <= 1 THEN ms
    ELSE LET n == Len(ms.pending) - 1
         IN  ForceCollapse(MergeAt(ms,
                 IF n > 1 /\ Len(ms.pending[n - 1].items) < Len(ms.pending[n + 1].items)
                 THEN n - 1 ELSE n))

\* the loop of list.sort over the entries xs still to sort: the next run is
\* found, made minrun entries long where it is shorter and entries are left,
\* and pushed on the pending runs, which found_new_run merges as far as the
\* powers say
RECURSIVE SortRuns(_, _, _, _)

\* the number of entries of the next run
RunLen(xs, minrun) ==
    IF CountRun(xs) < minrun THEN Min(Len(xs), minrun) ELSE CountRun(xs)

PushRun(found, run) == [found EXCEPT !.pending = Append(@, [items |-> run, power |-> 0])]

SortOn(next, xs, minrun, n) == After(next, SortRuns(next, xs, minrun, n))

SortRun(ms, xs, minrun, n, k) ==
    SortOn(PushRun(FoundNewRun(ms, k, n), NextRun(xs, CountRun(xs), k)),
           SubSeq(xs, k + 1, Len(xs)), minrun, n)

SortRuns(ms, xs, minrun, n) ==
    IF xs = <<>> THEN ms ELSE SortRun(ms, xs, minrun, n, RunLen(xs, minrun))

\* list.sort of two entries or more, ascending: the list is cut into runs of
\* minrun entries or more, each put in order by binarysort, and the runs are
\* merged (a list of fewer than 64 entries is one run)
SortAscending(xs) ==
    ForceCollapse(SortRuns([pending |-> <<>>, min_gallop |-> MIN_GALLOP], xs,
                           MinRun(Len(xs), 0), Len(xs))).pending[1].items

\* rated.sort(key=lambda x: x[1], reverse=True): list.sort reverses the list,
\* sorts it ascending and reverses the outcome
SortReverse(xs) == IF Len(xs) < 2 THEN xs ELSE Reverse(SortAscending(Reverse(xs)))

\* rated[:limit] for limit >= 0
Truncate(xs, n) == PySlice(xs, 0, n)

\* rated = [(p, get_property_rating(p)) for p in properties]
Rated(props) == [i \in 1..Len(props) |-> <<props[i], get_property_rating(props[i])>>]

\* rated.sort(...); return rated[:limit], rated being the records with the
\* outcomes of their ratings
RankRated(rated, n) ==
    LET raising == {i \in 1..Len(rated) : rated[i][2].t = "raise"}
    IN  IF raising # {} THEN rated[Least(raising)][2]
        ELSE Return(Truncate(
                 SortReverse([i \in 1..Len(rated) |-> <<rated[i][1], rated[i][2].v>>]),
                 n))

\* get_top_rated_properties(properties, limit): the first record whose rating
\* raises ends the call with its exception
get_top_rated_properties(props, n) == RankRated(Rated(props), n)

\* bounds of the lists and limits tried
MaxProps == 3
MaxLimit == 4
MaxTies == 7

Names == (* "ABCDEFGHIJ" *) <<65, 66, 67, 68, 69, 70, 71, 72, 73, 74>>

\* the rating fields of the records ranked: scores 4.5, 3.0, 0.0, nan,
\* 0.39999999999999997, 0.4 and inf, and a record whose rating raises
RankShapes ==
    { << <<(* "airbnb_rating" *) <<97, 105, 114, 98, 110, 98, 95, 114, 97, 116, 105, 110, 103>>, JInt(4)>>, <<(* "booking_rating" *) <<
            98, 111, 111, 107, 105, 110, 103, 95, 114, 97, 116, 105, 110, 103>>, JInt(5)>> >>,
      << <<(* "airbnb" *) <<97, 105, 114, 98, 110, 98>>, JInt(3)>> >>,
      <<>>,
      << <<(* "airbnb_rating" *) <<97, 105, 114, 98, 110, 98, 95, 114, 97, 116, 105, 110, 103>>, JStr((* "nan" *) <<
              110, 97, 110>>)>> >>,
      << <<(* "airbnb_rating" *) <<97, 105, 114, 98, 110, 98, 95, 114, 97, 116, 105, 110, 103>>, JFloat((* "0.1" *) <<
              48, 46, 49>>)>>, <<(* "booking_rating" *) <<98, 111, 111, 107, 105, 110, 103, 95,
              114, 97, 116, 105, 110, 103>>, JFloat((* "0.7" *) <<48, 46, 55>>)>> >>,
      << <<(* "airbnb_rating" *) <<97, 105, 114, 98, 110, 98, 95, 114, 97, 116, 105, 110, 103>>, JFloat((* "0.4" *) <<
              48, 46, 52>>)>> >>,
      << <<(* "airbnb_rating" *) <<97, 105, 114, 98, 110, 98, 95, 114, 97, 116, 105, 110, 103>>, JStr((* "inf" *) <<
              105, 110, 102>>)>> >>,
      << <<(* "booking" *) <<98, 111, 111, 107, 105, 110, 103>>, JBigInt((* "1" *) <<49>> \o Zeros(400))>> >> }

\* the rating fields of the records of the longer lists: scores nan, 1.0, 2.0
TieShapes ==
    { << <<(* "airbnb_rating" *) <<97, 105, 114, 98, 110, 98, 95, 114, 97, 116, 105, 110, 103>>, JStr((* "nan" *) <<
            110, 97, 110>>)>> >>,
      << <<(* "airbnb_rating" *) <<97, 105, 114, 98, 110, 98, 95, 114, 97, 116, 105, 110, 103>>, JInt(1)>> >>,
      << <<(* "airbnb" *) <<97, 105, 114, 98, 110, 98>>, JInt(2)>> >> }

\* the record with the given name and the fields of shape
Named(name, shape) == JDict(<< <<(* "name" *) <<110, 97, 109, 101>>, JStr(<<name>>)>> >> \o shape)

\* the bound of the lists long enough for list.sort to cut them into runs that
\* it merges (64 entries or more), and the bound of the patterns of their scores
MaxLong == 66
MaxPattern == 4

\* the list of n records named 1, 2, 3, ... whose scores are 0.0, 1.0, ... up to
\* period - 1 and again from 0.0, but for each record whose number is a
\* multiple of gap, whose score is a nan
PatternList(n, period, gap) ==
    [i \in 1..n |->
        JDict(<< <<(* "name" *) <<110, 97, 109, 101>>, JStr(IntStr(JInt(i)))>>,
                 <<(* "airbnb_rating" *) <<97, 105, 114, 98, 110, 98, 95, 114, 97, 116, 105, 110,
                         103>>, IF i % gap = 0 THEN JStr((* "nan" *) <<110, 97, 110>>) ELSE JInt(i % period)>> >>)]

LongLists ==
    {PatternList(n, period, gap) :
        n \in 64..MaxLong, period \in 1..MaxPattern, gap \in {5, 9, 13}}

\* the lists of n records named A, B, C, ... in this order
PropertyLists(n, shapes) ==
    {[i \in 1..n |-> Named(Names[i], chosen[i])] : chosen \in [1..n -> shapes]}

\* the lists and limits tried: every limit on the shorter lists; on the longer
\* lists a limit that cuts them and one that does not; on the lists of 64
\* records or more a limit that cuts them and one that does not
RankInputs ==
    {[properties |-> props, limit |-> n] :
        props \in UNION {PropertyLists(len, RankShapes) : len \in 0..MaxProps},
        n \in 0..MaxLimit}
    \cup {[properties |-> props, limit |-> n] :
             props \in PropertyLists(MaxTies, TieShapes), n \in {MaxLimit, MaxTies}}
    \cup {[properties |-> props, limit |-> n] :
             props \in LongLists, n \in {MaxLimit, MaxLong}}

RankInit ==
    /\ ranked = NotCalled

\* ranked = get_top_rated_properties(properties, limit)
RankProperties ==
    /\ ranked = NotCalled
    /\ ranked' = get_top_rated_properties(properties, limit)
    /\ UNCHANGED <<properties, limit>>
    /\ UNCHANGED <<splitVars, ratingVars, fetchVars, formatVars, handlerVars, chartVars>>

-----------------------------------------------------------------------------
(* the remote data source, as requests.get sees it *)

\* a body resp.json() cannot parse
Unparsable == [t |-> "unparsable"]

\* requests.get raised e
TransportError(e) == [t |-> "error", exc |-> e]

HttpResponse(status, body) == [t |-> "http", status |-> status, body |-> body]

\* resp.raise_for_status(): an HTTPError for a 4xx or a 5xx status, else nothing
RaisesForStatus(resp) == 400 <= resp.status /\ resp.status < 600

\* except Exception: every exception is an Exception but for KeyboardInterrupt
\* and SystemExit, which the handler lets out
IsException(e) == e \notin {"KeyboardInterrupt", "SystemExit"}

\* try: body / except Exception: return fallback
TryExcept(outcome, fallback) ==
    IF outcome.t = "raise" /\ IsException(outcome.exc) THEN Return(fallback)
    ELSE outcome

\* requests.get, raise_for_status and resp.json() in a row: the parsed body, or
\* the exception raised on the way
GetJson(resp) ==
    IF resp.t = "error" THEN Raise(resp.exc)
    ELSE IF RaisesForStatus(resp) THEN Raise("HTTPError")
    ELSE IF resp.body = Unparsable THEN Raise("JSONDecodeError")
    ELSE Return(resp.body)

\* isinstance(data, dict) and "data" in data
HasData(data) == data.t = "dict" /\ Has(data, (* "data" *) <<100, 97, 116, 97>>)

\* the list of the payload, the list under "data", or []
ListOrData(data) ==
    IF data.t = "list" THEN data
    ELSE IF HasData(data) /\ Get(data, (* "data" *) <<100, 97, 116, 97>>, None).t = "list"
    THEN Get(data, (* "data" *) <<100, 97, 116, 97>>, None)
    ELSE JList(<<>>)

\* a slip: the status is not looked at
fetch_all_properties_any_status(resp) ==
    TryExcept(
        IF resp.t = "error" THEN Raise(resp.exc)
        ELSE IF resp.body = Unparsable THEN Raise("JSONDecodeError")
        ELSE Return(ListOrData(resp.body)),
        JList(<<>>))

fetch_all_properties(resp) ==
    TryExcept(IF GetJson(resp).t = "raise" THEN GetJson(resp)
              ELSE Return(ListOrData(GetJson(resp).v)),
              JList(<<>>))

fetch_properties_list(resp) ==
    TryExcept(IF GetJson(resp).t = "raise" THEN GetJson(resp)
              ELSE Return(ListOrData(GetJson(resp).v)),
              JList(<<>>))

\* resp is NoRequest when COMPLAINTS_URL is not set: [] without a request
fetch_complaints_for_property(resp) ==
    IF resp = NoRequest THEN Return(JList(<<>>))
    ELSE TryExcept(
             IF GetJson(resp).t = "raise" THEN GetJson(resp)
             ELSE IF GetJson(resp).v.t = "list" THEN GetJson(resp)
             ELSE IF HasData(GetJson(resp).v)
             THEN Return(Get(GetJson(resp).v, (* "data" *) <<100, 97, 116, 97>>, None))
             ELSE Return(JList(<<>>)),
             JList(<<>>))

\* str(a) == str(b), written being str(a)
SameText(written, b) == written = Str(b)

\* the scan ends at the first of the items that are no dict, with an
\* AttributeError, and of the hits, with the item; or behind the items
ScanEnds(items, nonDict, hits) ==
    IF nonDict \cup hits = {} THEN Return(JDict(<<>>))
    ELSE IF Least(nonDict \cup hits) \in nonDict THEN Raise("AttributeError")
    ELSE Return(items[Least(hits)])

\* the outcome of `for p in all_props: if str(p.get("id")) == str(property_id):
\* return p`, and of the `return {}` behind it; p.get is an AttributeError when
\* p is no dict
ScanFor(items, pid) ==
    ScanEnds(items,
             {i \in 1..Len(items) : items[i].t # "dict"},
             {i \in 1..Len(items) :
                 /\ items[i].t = "dict"
                 /\ SameText(Str(Get(items[i], (* "id" *) <<105, 100>>, None)), pid)})

\* all_props is the outcome of fetch_all_properties(): what it lets out (an
\* exception that is no Exception) leaves the scan too
ScanAll(all_props, pid) ==
    IF all_props.t = "raise" THEN all_props ELSE ScanFor(all_props.v.items, pid)

\* property_id is a str; direct answers GET base_url/id, list answers the GET of
\* the fallback
fetch_property_by_id(pid, direct, list) ==
    TryExcept(
        IF direct.t = "error" THEN Raise(direct.exc)
        ELSE IF direct.status = 200
             THEN (IF direct.body = Unparsable THEN Raise("JSONDecodeError")
                   ELSE Return(direct.body))
        ELSE ScanAll(fetch_all_properties(list), pid),
        JDict(<<>>))

-----------------------------------------------------------------------------
(* the inputs of the fetchers *)

\* the bound of the lists the remote data source answers with
MaxListLen == 2

IdRecords ==
    { JDict(<< <<(* "id" *) <<105, 100>>, JStr((* "7" *) <<55>>)>>, <<(* "name" *) <<110, 97,
            109, 101>>, JStr((* "A" *) <<65>>)>> >>),
      JDict(<< <<(* "id" *) <<105, 100>>, JInt(7)>>, <<(* "name" *) <<110, 97, 109, 101>>, JStr((* "B" *) <<
              66>>)>> >>),
      JDict(<< <<(* "id" *) <<105, 100>>, JStr((* "8" *) <<56>>)>>, <<(* "name" *) <<110, 97,
              109, 101>>, JStr((* "C" *) <<67>>)>> >>),
      JDict(<< <<(* "name" *) <<110, 97, 109, 101>>, JStr((* "D" *) <<68>>)>> >>),
      JDict(<< <<(* "id" *) <<105, 100>>, None>>, <<(* "name" *) <<110, 97, 109, 101>>, JStr((* "E" *) <<
              69>>)>> >>) }

ListBodies ==
    UNION {{JList(rs) : rs \in [1..n -> IdRecords]} : n \in 0..MaxListLen}

\* a list, a list under "data", something else under "data", an object without
\* "data", a list of something else than objects, a string, a number, true,
\* null, and a body that is no JSON
Bodies ==
    ListBodies
    \cup {JDict(<< <<(* "data" *) <<100, 97, 116, 97>>, b>> >>) : b \in ListBodies}
    \cup { JDict(<< <<(* "data" *) <<100, 97, 116, 97>>, JStr((* "x" *) <<120>>)>> >>), JDict(<< <<(* "data" *) <<
            100, 97, 116, 97>>, None>> >>),
           JDict(<< <<(* "data" *) <<100, 97, 116, 97>>, JDict(<< <<(* "id" *) <<105, 100>>, JInt(7)>> >>)>> >>),
           JDict(<< <<(* "error" *) <<101, 114, 114, 111, 114>>, JStr((* "x" *) <<120>>)>> >>),
           JList(<<JInt(7), JDict(<< <<(* "id" *) <<105, 100>>, JStr((* "7" *) <<55>>)>> >>)>>),
           JStr((* "x" *) <<120>>), JInt(7), JBool(TRUE), None, Unparsable }

Statuses == {200, 300, 404, 500}

\* the exceptions of requests.get: those requests raises
Errors == {TransportError("ConnectionError"), TransportError("Timeout")}

Responses == Errors \cup {HttpResponse(st, b) : st \in Statuses, b \in Bodies}

\* what GET base_url/id answers with
DirectBodies == IdRecords \cup {JStr((* "x" *) <<120>>), Unparsable}

DirectResponses ==
    Errors \cup {HttpResponse(st, b) : st \in Statuses, b \in DirectBodies}

\* property_id is a str (a command argument)
PropertyIds == {JStr((* "7" *) <<55>>), JStr((* "8" *) <<56>>), JStr((* "None" *) <<78, 111, 110,
        101>>)}

FetchInit ==
    /\ fetcher = "none"
    /\ response = NotCalled
    /\ fetched = NotCalled
    /\ propertyId = NotCalled
    /\ listResponse = NoRequest

FetchAllProperties ==
    /\ fetcher = "none"
    /\ \E resp \in Responses :
          /\ response' = resp
          /\ fetched' = fetch_all_properties(resp)
    /\ fetcher' = "fetch_all_properties"
    /\ UNCHANGED <<propertyId, listResponse>>
    /\ UNCHANGED <<splitVars, ratingVars, rankVars, formatVars, handlerVars, chartVars>>

FetchPropertiesList ==
    /\ fetcher = "none"
    /\ \E resp \in Responses :
          /\ response' = resp
          /\ fetched' = fetch_properties_list(resp)
    /\ fetcher' = "fetch_properties_list"
    /\ UNCHANGED <<propertyId, listResponse>>
    /\ UNCHANGED <<splitVars, ratingVars, rankVars, formatVars, handlerVars, chartVars>>

FetchComplaintsForProperty ==
    /\ fetcher = "none"
    /\ \E pid \in PropertyIds, resp \in Responses \cup {NoRequest} :
          /\ propertyId' = pid
          /\ response' = resp
          /\ fetched' = fetch_complaints_for_property(resp)
    /\ fetcher' = "fetch_complaints_for_property"
    /\ UNCHANGED listResponse
    /\ UNCHANGED <<splitVars, ratingVars, rankVars, formatVars, handlerVars, chartVars>>

\* the list is requested only when the direct GET answered and not with 200
NeedsList(direct) == direct.t = "http" /\ direct.status # 200

FetchPropertyById ==
    /\ fetcher = "none"
    /\ \E pid \in PropertyIds, direct \in DirectResponses :
          \E list \in (IF NeedsList(direct) THEN Responses ELSE {NoRequest}) :
             /\ propertyId' = pid
             /\ response' = direct
             /\ listResponse' = list
             /\ fetched' = fetch_property_by_id(pid, direct, list)
    /\ fetcher' = "fetch_property_by_id"
    /\ UNCHANGED <<splitVars, ratingVars, rankVars, formatVars, handlerVars, chartVars>>

-----------------------------------------------------------------------------
(* the report formatters: each returns the text it builds, character by      *)
(* character, or raises.  p.get is an AttributeError when p is no dict.      *)

\* the length beyond which format_complaint cuts the description
DESCRIPTION_MAX == 200

\* extras = "\n    " + "\n    ".join(extra) if extra else ""
Extras(extra) == IF extra # <<>> THEN (* "\n    " *) <<10, 32, 32, 32, 32>> \o Join((* "\n    " *) <<
        10, 32, 32, 32, 32>>, extra) ELSE <<>>

format_property(p) ==
    IF p.t # "dict" THEN Raise("AttributeError")
    ELSE
    LET name    == Get(p, (* "name" *) <<110, 97, 109, 101>>, JStr((* "Unnamed property" *) <<85,
            110, 110, 97, 109, 101, 100, 32, 112, 114, 111, 112, 101, 114, 116, 121>>))
        airbnb  == Get(p, (* "airbnb_rating" *) <<97, 105, 114, 98, 110, 98, 95, 114, 97, 116,
                105, 110, 103>>, Get(p, (* "airbnb" *) <<97, 105, 114, 98, 110, 98>>, JStr((* "N/A" *) <<
                78, 47, 65>>)))
        booking == Get(p, (* "booking_rating" *) <<98, 111, 111, 107, 105, 110, 103, 95, 114, 97,
                116, 105, 110, 103>>, Get(p, (* "booking" *) <<98, 111, 111, 107, 105, 110, 103>>, JStr((* "N/A" *) <<
                78, 47, 65>>)))
        pid     == Get(p, (* "id" *) <<105, 100>>, JStr((* "N/A" *) <<78, 47, 65>>))
        extra   == (IF Has(p, (* "location" *) <<108, 111, 99, 97, 116, 105, 111, 110>>)
                    THEN <<(* "Location: " *) <<76, 111, 99, 97, 116, 105, 111, 110, 58, 32>> \o Str(Get(p, (* "location" *) <<
                            108, 111, 99, 97, 116, 105, 111, 110>>, None))>> ELSE <<>>)
                   \o (IF Has(p, (* "url" *) <<117, 114, 108>>)
                       THEN <<(* "URL: " *) <<85, 82, 76, 58, 32>> \o Str(Get(p, (* "url" *) <<
                               117, 114, 108>>, None))>> ELSE <<>>)
    IN  Return((* "\U0001f3e0 " *) <<127968, 32>> \o Str(name) \o (* " (id: " *) <<32, 40, 105,
            100, 58, 32>> \o Str(pid) \o (* ")\n   \u2b50 Airbnb: " *) <<41, 10, 32, 32, 32,
            11088, 32, 65, 105, 114, 98, 110, 98, 58, 32>>
               \o Str(airbnb) \o (* "\n   \u2b50 Booking: " *) <<10, 32, 32, 32, 11088, 32, 66,
                       111, 111, 107, 105, 110, 103, 58, 32>> \o Str(booking) \o Extras(extra)
               \o (* "\n" *) <<10>>)

format_property_basic(p) ==
    IF p.t # "dict" THEN Raise("AttributeError")
    ELSE
    LET name     == Get(p, (* "name" *) <<110, 97, 109, 101>>, JStr((* "Unnamed property" *) <<
            85, 110, 110, 97, 109, 101, 100, 32, 112, 114, 111, 112, 101, 114, 116, 121>>))
        pid      == Get(p, (* "id" *) <<105, 100>>, JStr((* "N/A" *) <<78, 47, 65>>))
        location == Get(p, (* "location" *) <<108, 111, 99, 97, 116, 105, 111, 110>>, Get(p, (* "address" *) <<
                97, 100, 100, 114, 101, 115, 115>>, JStr(<<>>)))
        loc_str  == IF Truthy(location) THEN (* " - " *) <<32, 45, 32>> \o Str(location) ELSE <<>>
    IN  Return((* "\U0001f3e0 [" *) <<127968, 32, 91>> \o Str(pid) \o (* "] " *) <<93, 32>> \o Str(name) \o loc_str)

\* {1: gold, 2: silver, 3: bronze}.get(rank, f"{rank}.")
Medal(rank) ==
    CASE rank = 1 -> (* "\U0001f947" *) <<129351>>
      [] rank = 2 -> (* "\U0001f948" *) <<129352>>
      [] rank = 3 -> (* "\U0001f949" *) <<129353>>
      [] OTHER    -> IntStr(JInt(rank)) \o (* "." *) <<46>>

\* the text of format_top_property, formatted being the outcome of
\* f"{avg_rating:.2f}"
TopPropertyText(rank, p, formatted_avg) ==
    IF formatted_avg.t = "raise" THEN formatted_avg
    ELSE Return(Medal(rank) \o (* " " *) <<32>> \o Str(Get(p, (* "name" *) <<110, 97, 109, 101>>, JStr((* "Unnamed" *) <<
            85, 110, 110, 97, 109, 101, 100>>)))
                \o (* " (id: " *) <<32, 40, 105, 100, 58, 32>> \o Str(Get(p, (* "id" *) <<105,
                        100>>, JStr((* "N/A" *) <<78, 47, 65>>)))
                \o (* ")\n   \u2b50 Avg: " *) <<41, 10, 32, 32, 32, 11088, 32, 65, 118, 103, 58,
                        32>> \o formatted_avg.v \o (* " | Airbnb: " *) <<32, 124, 32, 65, 105,
                        114, 98, 110, 98, 58, 32>>
                \o Str(Get(p, (* "airbnb_rating" *) <<97, 105, 114, 98, 110, 98, 95, 114, 97,
                        116, 105, 110, 103>>, Get(p, (* "airbnb" *) <<97, 105, 114, 98, 110, 98>>, JStr((* "N/A" *) <<
                        78, 47, 65>>))))
                \o (* " | Booking: " *) <<32, 124, 32, 66, 111, 111, 107, 105, 110, 103, 58, 32>>
                \o Str(Get(p, (* "booking_rating" *) <<98, 111, 111, 107, 105, 110, 103, 95, 114,
                        97, 116, 105, 110, 103>>, Get(p, (* "booking" *) <<98, 111, 111, 107,
                        105, 110, 103>>, JStr((* "N/A" *) <<78, 47, 65>>)))))

\* rank is an int; avg_rating is what get_property_rating returned
format_top_property(rank, p, avg_rating) ==
    IF p.t # "dict" THEN Raise("AttributeError")
    ELSE TopPropertyText(rank, p, Format2f(avg_rating))

\* the line of an optional field: f"   {label}: {value}" if value
OptionalLine(label, value) ==
    IF Truthy(value) THEN <<(* "   " *) <<32, 32, 32>> \o label \o (* ": " *) <<58, 32>> \o Str(value)>> ELSE <<>>

\* the line of the description: cut is the outcome of description[:200] and
\* length that of len(description)
DescriptionLine(cut, length) ==
    IF cut.t = "raise" THEN cut
    ELSE IF length.t = "raise" THEN length
    ELSE Return((* "   Description: " *) <<32, 32, 32, 68, 101, 115, 99, 114, 105, 112, 116, 105,
            111, 110, 58, 32>> \o Str(cut.v)
                \o (IF length.v > DESCRIPTION_MAX THEN (* "..." *) <<46, 46, 46>> ELSE <<>>))

\* "\n".join(lines), last being the outcome of the last line
JoinLines(lines, last) ==
    IF last.t = "raise" THEN last ELSE Return(Join((* "\n" *) <<10>>, Append(lines, last.v)))

format_complaint(c) ==
    IF c.t # "dict" THEN Raise("AttributeError")
    ELSE
    LET complaint_id == Get(c, (* "id" *) <<105, 100>>, JStr((* "N/A" *) <<78, 47, 65>>))
        title        == Get(c, (* "title" *) <<116, 105, 116, 108, 101>>, Get(c, (* "subject" *) <<
                115, 117, 98, 106, 101, 99, 116>>, JStr((* "No title" *) <<78, 111, 32, 116, 105,
                116, 108, 101>>)))
        description  == Get(c, (* "description" *) <<100, 101, 115, 99, 114, 105, 112, 116, 105,
                111, 110>>,
                            Get(c, (* "message" *) <<109, 101, 115, 115, 97, 103, 101>>, Get(c, (* "text" *) <<
                                    116, 101, 120, 116>>, JStr((* "No description" *) <<78, 111,
                                    32, 100, 101, 115, 99, 114, 105, 112, 116, 105, 111, 110>>))))
        status       == Get(c, (* "status" *) <<115, 116, 97, 116, 117, 115>>, JStr((* "unknown" *) <<
                117, 110, 107, 110, 111, 119, 110>>))
        date         == Get(c, (* "date" *) <<100, 97, 116, 101>>,
                            Get(c, (* "created_at" *) <<99, 114, 101, 97, 116, 101, 100, 95, 97,
                                    116>>, Get(c, (* "createdAt" *) <<99, 114, 101, 97, 116, 101,
                                    100, 65, 116>>, JStr(<<>>))))
        severity     == Get(c, (* "severity" *) <<115, 101, 118, 101, 114, 105, 116, 121>>, Get(c, (* "priority" *) <<
                112, 114, 105, 111, 114, 105, 116, 121>>, JStr(<<>>)))
    IN  JoinLines(<< (* "\U0001f4cb Complaint #" *) <<128203, 32, 67, 111, 109, 112, 108, 97,
            105, 110, 116, 32, 35>> \o Str(complaint_id) \o (* ": " *) <<58, 32>> \o Str(title),
                     (* "   Status: " *) <<32, 32, 32, 83, 116, 97, 116, 117, 115, 58, 32>> \o Str(status) >>
                  \o OptionalLine((* "Severity" *) <<83, 101, 118, 101, 114, 105, 116, 121>>, severity)
                  \o OptionalLine((* "Date" *) <<68, 97, 116, 101>>, date),
                  DescriptionLine(SliceTo(description, DESCRIPTION_MAX),
                                  PyLen(description)))

\* a key that a record does not have
Absent == [t |-> "absent"]

\* the dict of the keys that values gives a value, in the order of keys
DictOf(keys, values) ==
    JDict(SelectSeq([i \in 1..Len(keys) |-> <<keys[i], values[i]>>],
                    LAMBDA pair : pair[2] # Absent))

\* a string, an int, a float, null and a list, which holds a str with characters
\* that repr() escapes
FieldValues ==
    {JStr((* "x" *) <<120>>), JInt(7), JFloat((* "4.5" *) <<52, 46, 53>>), None, JList(<<JInt(1), JStr((* "\x01\u2028'" *) <<
            1, 8232, 39>>)>>)}

PropertyKeys == <<(* "name" *) <<110, 97, 109, 101>>, (* "airbnb_rating" *) <<97, 105, 114, 98,
        110, 98, 95, 114, 97, 116, 105, 110, 103>>, (* "location" *) <<108, 111, 99, 97, 116,
        105, 111, 110>>, (* "url" *) <<117, 114, 108>>>>

ListingKeys == <<(* "id" *) <<105, 100>>, (* "booking" *) <<98, 111, 111, 107, 105, 110, 103>>, (* "location" *) <<
        108, 111, 99, 97, 116, 105, 111, 110>>, (* "address" *) <<97, 100, 100, 114, 101, 115,
        115>>>>

ComplaintKeys == <<(* "title" *) <<116, 105, 116, 108, 101>>, (* "description" *) <<100, 101,
        115, 99, 114, 105, 112, 116, 105, 111, 110>>, (* "message" *) <<109, 101, 115, 115, 97,
        103, 101>>, (* "text" *) <<116, 101, 120, 116>>>>

\* a description of 250 characters
LongDescription == JStr(MakeText(DESCRIPTION_MAX + 50, 3))

FormatRecords ==
    {DictOf(keys, values) :
        keys   \in {PropertyKeys, ListingKeys, ComplaintKeys},
        values \in [1..4 -> FieldValues \cup {Absent}]}
    \cup {JDict(<< <<(* "description" *) <<100, 101, 115, 99, 114, 105, 112, 116, 105, 111, 110>>, LongDescription>> >>)}

\* the bound of the ranks format_top_property is given
MaxRank == 4

FormatInit ==
    /\ formatter = "none"
    /\ formatted = NotCalled

FormatProperty ==
    /\ formatter = "none"
    /\ formatter' = "format_property"
    /\ formatted' = format_property(fmtRec)
    /\ UNCHANGED fmtRec
    /\ UNCHANGED <<splitVars, ratingVars, rankVars, fetchVars, handlerVars, chartVars>>

FormatPropertyBasic ==
    /\ formatter = "none"
    /\ formatter' = "format_property_basic"
    /\ formatted' = format_property_basic(fmtRec)
    /\ UNCHANGED fmtRec
    /\ UNCHANGED <<splitVars, ratingVars, rankVars, fetchVars, handlerVars, chartVars>>

\* the callers pass a rank from enumerate(..., 1) and the record's rating
FormatTopProperty ==
    /\ formatter = "none"
    /\ formatter' = "format_top_property"
    /\ \E rank \in 1..MaxRank :
          formatted' = format_top_property(rank, fmtRec, get_property_rating(fmtRec).v)
    /\ UNCHANGED fmtRec
    /\ UNCHANGED <<splitVars, ratingVars, rankVars, fetchVars, handlerVars, chartVars>>

FormatComplaint ==
    /\ formatter = "none"
    /\ formatter' = "format_complaint"
    /\ formatted' = format_complaint(fmtRec)
    /\ UNCHANGED fmtRec
    /\ UNCHANGED <<splitVars, ratingVars, rankVars, fetchVars, handlerVars, chartVars>>

-----------------------------------------------------------------------------
(* generate_ratings_chart, statement by statement, and the pyplot state it   *)
(* works on.  pyplot keeps the open figures in order, the current figure     *)
(* last: plt.subplots() opens a figure and makes it current,                 *)
(* plt.tight_layout() and plt.savefig() act on the current figure,           *)
(* plt.close(fig) closes the figure given.  A figure is what was asked of    *)
(* it: its height and the calls made on its axes, in order.  The handlers    *)
(* of main() are run by the dispatcher one at a time (no handler is          *)
(* registered with run_async), so a call begins when no other call is under  *)
(* way.                                                                      *)

\* the bound of the calls of a run
MaxCalls == 2

Calls == 1..MaxCalls

\* name = p.get("name", "Unknown"); if len(name) > 20: name = name[:17] + "..."
\* (a name without a length, and a long name that is no str, are a TypeError)
ChartName(p) ==
    LET name   == Get(p, (* "name" *) <<110, 97, 109, 101>>, JStr((* "Unknown" *) <<85, 110, 107,
            110, 111, 119, 110>>))
        length == PyLen(name)
    IN  IF length.t = "raise" THEN length
        ELSE IF length.v <= 20 THEN Return(name)
        ELSE IF name.t = "str" THEN Return(JStr(PySlice(name.s, 0, 17) \o (* "..." *) <<46, 46,
                46>>))
        ELSE Raise("TypeError")

\* except (ValueError, TypeError): append(0), converted being the outcome of
\* float(v)
OrZero(converted) ==
    IF converted.t = "return" THEN converted
    ELSE IF converted.exc \in {"ValueError", "TypeError"} THEN Return(JInt(0))
    ELSE converted

\* float(v) if v else 0, and 0 on a ValueError or a TypeError
ChartRating(v) == IF ~Truthy(v) THEN Return(JInt(0)) ELSE OrZero(float(v))

\* what one entry adds to names, airbnb_ratings and booking_ratings
ChartRow(p) ==
    IF p.t # "dict"
    THEN << Raise("AttributeError"), Raise("AttributeError"), Raise("AttributeError") >>
    ELSE << ChartName(p), ChartRating(AirbnbOf(p)), ChartRating(BookingOf(p)) >>

\* the loop over the entries: the three lists, one row per entry, or the first
\* exception raised on the way
ChartColumns(rows) ==
    LET raised == {c \in (1..Len(rows)) \X (1..3) : rows[c[1]][c[2]].t = "raise"}
        first  == CHOOSE c \in raised :
                     \A d \in raised : c[1] < d[1] \/ (c[1] = d[1] /\ c[2] <= d[2])
    IN  IF raised # {} THEN rows[first[1]][first[2]]
        ELSE Return([i \in 1..Len(rows) |->
                        [name    |-> rows[i][1].v,
                         airbnb  |-> rows[i][2].v,
                         booking |-> rows[i][3].v]])

\* names, airbnb_ratings and booking_ratings of the ranked entries
ChartData(entries) ==
    ChartColumns([i \in 1..Len(entries) |-> ChartRow(entries[i][1])])

\* fig_height = max(6, len(names) * 0.5): the int 6 unless the float is greater
FigHeight(n) ==
    IF n > 12 THEN DblDivNat(float(JInt(n)).v, 2) ELSE JInt(6)

NoFigure == [t |-> "no_figure"]

\* the locals of a call that has not prepared its data
NoLocals == [t |-> "no_locals"]

\* the figure plt.subplots(figsize=(10, fig_height)) opens: nothing is drawn on
\* its axes
NewFigure(height) == [height |-> height, axes |-> <<>>, tight |-> FALSE]

\* what plt.savefig(buf, format='png', dpi=150, bbox_inches='tight') writes to
\* the buffer: the PNG of the figure as it is when it is saved
Png(fig) ==
    [format |-> (* "png" *) <<112, 110, 103>>, dpi |-> 150, bbox_inches |-> (* "tight" *) <<116,
            105, 103, 104, 116>>, figure |-> fig]

\* plt.gcf(): the figure opened or activated last (a call is between its
\* plt.subplots() and its plt.close(fig) when it asks, so one is open)
CurrentFigure(open) == open[Len(open)]

\* -x of a float
Neg(x) == IF IsNan(x) THEN x ELSE [x EXCEPT !.neg = ~@]

\* bar_height = 0.35
BarHeight == JFloat((* "0.35" *) <<48, 46, 51, 53>>)

\* the column of the rows under a field: names, airbnb_ratings, booking_ratings
Column(rows, field) == [i \in 1..Len(rows) |-> rows[i][field]]

\* [y - bar_height/2 for y in y_pos] and [y + bar_height/2 for y in y_pos],
\* y_pos being range(n)
YAbove(n) == [i \in 1..n |-> DblAdd(float(JInt(i - 1)).v, Neg(DblDivNat(BarHeight, 2)))]
YBelow(n) == [i \in 1..n |-> DblAdd(float(JInt(i - 1)).v, DblDivNat(BarHeight, 2))]

\* the calls made on ax, each with its arguments
Barh(y, width, label, color) ==
    [call |-> "barh", y |-> y, width |-> width, height |-> BarHeight,
     label |-> label, color |-> color]
AxText(x, y, s) ==
    [call |-> "text", x |-> x, y |-> y, s |-> s, va |-> (* "center" *) <<99, 101, 110, 116, 101,
            114>>, fontsize |-> 9]
SetYticks(n) == [call |-> "set_yticks", ticks |-> [i \in 1..n |-> JInt(i - 1)]]
SetYticklabels(names) == [call |-> "set_yticklabels", labels |-> names]
InvertYaxis == [call |-> "invert_yaxis"]
SetXlabel == [call |-> "set_xlabel", xlabel |-> (* "Rating" *) <<82, 97, 116, 105, 110, 103>>]
SetTitle(title) == [call |-> "set_title", label |-> title]
Legend == [call |-> "legend", loc |-> (* "lower right" *) <<108, 111, 119, 101, 114, 32, 114,
        105, 103, 104, 116>>]
SetXlim == [call |-> "set_xlim", left |-> JInt(0), right |-> JFloat((* "5.5" *) <<53, 46, 53>>)]
Grid == [call |-> "grid", axis |-> (* "x" *) <<120>>, alpha |-> JFloat((* "0.3" *) <<48, 46, 51>>)]

BarhAirbnb(rows) ==
    Barh(YAbove(Len(rows)), Column(rows, "airbnb"), (* "Airbnb" *) <<65, 105, 114, 98, 110, 98>>, (* "#FF5A5F" *) <<
            35, 70, 70, 53, 65, 53, 70>>)
BarhBooking(rows) ==
    Barh(YBelow(Len(rows)), Column(rows, "booking"), (* "Booking" *) <<66, 111, 111, 107, 105,
            110, 103>>, (* "#003580" *) <<35, 48, 48, 51, 53, 56, 48>>)

\* the widths as the array ax.barh makes of them: floats when one of them is a
\* float (the others are the int 0)
AsArray(width) ==
    IF \E i \in 1..Len(width) : width[i].t = "float"
    THEN [i \in 1..Len(width) |-> float(width[i]).v]
    ELSE width

\* the bars ax.barh returns: one rectangle per width, of the height given and
\* centred on its y (align='center'), so get_y() is y - height/2
Rectangle(y, width, height) ==
    [y |-> DblAdd(y, Neg(DblDivNat(height, 2))), width |-> width, height |-> height]

Bars(barh) ==
    [i \in 1..Len(barh.y) |-> Rectangle(barh.y[i], AsArray(barh.width)[i], barh.height)]

\* width > 0 of a width of a bar: a float, or the int 0
Positive(width) == width.t = "float" /\ DblLt(Zero(FALSE), width)

\* ax.text(width + 0.05, bar.get_y() + bar.get_height()/2, f'{width:.1f}',
\*         va='center', fontsize=9)
BarLabel(bar) ==
    AxText(DblAdd(bar.width, JFloat((* "0.05" *) <<48, 46, 48, 53>>)),
           DblAdd(bar.y, DblDivNat(bar.height, 2)),
           FormatFixed(bar.width, 1))

\* for bar in bars: a label for every bar of a width above 0
BarLabels(bars) ==
    Concat([i \in 1..Len(bars) |->
               IF Positive(bars[i].width) THEN <<BarLabel(bars[i])>> ELSE <<>>])

\* lines 251-277: the calls on ax of one call of the function, in order
AxCalls(rows, title) ==
    << BarhAirbnb(rows), BarhBooking(rows) >>
    \o BarLabels(Bars(BarhAirbnb(rows))) \o BarLabels(Bars(BarhBooking(rows)))
    \o << SetYticks(Len(rows)), SetYticklabels(Column(rows, "name")), InvertYaxis,
          SetXlabel, SetTitle(title), Legend, SetXlim, Grid >>

\* the buffer the function returns: its figure, drawn, laid out and saved
ChartOf(data, title) ==
    IF data.t = "raise" THEN data
    ELSE Return(Png([height |-> FigHeight(Len(data.v)),
                     axes |-> AxCalls(data.v, title), tight |-> TRUE]))

generate_ratings_chart(entries, title) == ChartOf(ChartData(entries), title)

\* the dispatcher of main() hands the next update to its handler when the
\* handler of the one before has returned or raised
Dispatched(c) == \A d \in Calls \ {c} : chartPc[d] \in {"start", "done", "raised"}

\* lines 219-242: names, airbnb_ratings and booking_ratings are filled, or an
\* exception leaves the function
ChartPrepare(c) ==
    /\ chartPc[c] = "start"
    /\ Dispatched(c)
    /\ \E data \in {ChartData(chartArgs[c].properties)} :
          IF data.t = "raise"
          THEN /\ chartPc' = [chartPc EXCEPT ![c] = "raised"]
               /\ buf' = [buf EXCEPT ![c] = data]
               /\ UNCHANGED chartLocals
          ELSE /\ chartPc' = [chartPc EXCEPT ![c] = "subplots"]
               /\ chartLocals' = [chartLocals EXCEPT ![c] =
                                     [rows |-> data.v, bars1 |-> <<>>, bars2 |-> <<>>,
                                      bar |-> 1]]
               /\ UNCHANGED buf
    /\ UNCHANGED <<chartArgs, figs, figure>>
    /\ UNCHANGED <<splitVars, ratingVars, rankVars, fetchVars, formatVars, handlerVars>>

\* lines 245-246: plt.subplots() opens the call's figure, which becomes the
\* current figure
ChartSubplots(c) ==
    /\ chartPc[c] = "subplots"
    /\ figure' = [figure EXCEPT ![c] = NewFigure(FigHeight(Len(chartLocals[c].rows)))]
    /\ figs' = Append(figs, c)
    /\ chartPc' = [chartPc EXCEPT ![c] = "barh_airbnb"]
    /\ UNCHANGED <<chartArgs, chartLocals, buf>>
    /\ UNCHANGED <<splitVars, ratingVars, rankVars, fetchVars, formatVars, handlerVars>>

\* a call on the call's own ax, after which the call is at `next`
OnAx(c, at, next, call) ==
    /\ chartPc[c] = at
    /\ figure' = [figure EXCEPT ![c].axes = Append(@, call)]
    /\ chartPc' = [chartPc EXCEPT ![c] = next]
    /\ UNCHANGED <<chartArgs, figs, buf>>
    /\ UNCHANGED <<splitVars, ratingVars, rankVars, fetchVars, formatVars, handlerVars>>

\* lines 251-252: bars1 = ax.barh(...)
ChartBarhAirbnb(c) ==
    /\ OnAx(c, "barh_airbnb", "barh_booking", BarhAirbnb(chartLocals[c].rows))
    /\ chartLocals' = [chartLocals EXCEPT
                          ![c].bars1 = Bars(BarhAirbnb(chartLocals[c].rows))]

\* lines 253-254: bars2 = ax.barh(...)
ChartBarhBooking(c) ==
    /\ OnAx(c, "barh_booking", "label_airbnb", BarhBooking(chartLocals[c].rows))
    /\ chartLocals' = [chartLocals EXCEPT
                          ![c].bars2 = Bars(BarhBooking(chartLocals[c].rows))]

\* one turn of `for bar in bars`, or its end: the bar of a width above 0 is
\* given its label
LabelBar(c, at, next, bars, i) ==
    /\ chartPc[c] = at
    /\ IF i > Len(bars)
       THEN /\ chartPc' = [chartPc EXCEPT ![c] = next]
            /\ chartLocals' = [chartLocals EXCEPT ![c].bar = 1]
            /\ UNCHANGED figure
       ELSE /\ chartLocals' = [chartLocals EXCEPT ![c].bar = i + 1]
            /\ figure' = [figure EXCEPT ![c].axes =
                             IF Positive(bars[i].width) THEN Append(@, BarLabel(bars[i]))
                             ELSE @]
            /\ UNCHANGED chartPc
    /\ UNCHANGED <<splitVars, ratingVars, rankVars, fetchVars, formatVars, handlerVars>>

\* lines 257-261: for bar in bars1
ChartLabelAirbnb(c) ==
    /\ LabelBar(c, "label_airbnb", "label_booking", chartLocals[c].bars1,
                chartLocals[c].bar)
    /\ UNCHANGED <<chartArgs, figs, buf>>

\* lines 263-267: for bar in bars2
ChartLabelBooking(c) ==
    /\ LabelBar(c, "label_booking", "set_yticks", chartLocals[c].bars2,
                chartLocals[c].bar)
    /\ UNCHANGED <<chartArgs, figs, buf>>

\* line 270: ax.set_yticks(list(y_pos))
ChartSetYticks(c) ==
    /\ OnAx(c, "set_yticks", "set_yticklabels", SetYticks(Len(chartLocals[c].rows)))
    /\ UNCHANGED chartLocals

\* line 271: ax.set_yticklabels(names)
ChartSetYticklabels(c) ==
    /\ OnAx(c, "set_yticklabels", "invert_yaxis",
            SetYticklabels(Column(chartLocals[c].rows, "name")))
    /\ UNCHANGED chartLocals

\* line 272: ax.invert_yaxis()
ChartInvertYaxis(c) ==
    /\ OnAx(c, "invert_yaxis", "set_xlabel", InvertYaxis)
    /\ UNCHANGED chartLocals

\* line 273: ax.set_xlabel('Rating')
ChartSetXlabel(c) ==
    /\ OnAx(c, "set_xlabel", "set_title", SetXlabel)
    /\ UNCHANGED chartLocals

\* line 274: ax.set_title(title)
ChartSetTitle(c) ==
    /\ OnAx(c, "set_title", "legend", SetTitle(chartArgs[c].title))
    /\ UNCHANGED chartLocals

\* line 275: ax.legend(loc='lower right')
ChartLegend(c) ==
    /\ OnAx(c, "legend", "set_xlim", Legend)
    /\ UNCHANGED chartLocals

\* line 276: ax.set_xlim(0, 5.5)
ChartSetXlim(c) ==
    /\ OnAx(c, "set_xlim", "grid", SetXlim)
    /\ UNCHANGED chartLocals

\* line 277: ax.grid(axis='x', alpha=0.3)
ChartGrid(c) ==
    /\ OnAx(c, "grid", "tight_layout", Grid)
    /\ UNCHANGED chartLocals

\* line 280: plt.tight_layout() lays out the current figure
ChartTightLayout(c) ==
    /\ chartPc[c] = "tight_layout"
    /\ figure' = [figure EXCEPT ![CurrentFigure(figs)].tight = TRUE]
    /\ chartPc' = [chartPc EXCEPT ![c] = "savefig"]
    /\ UNCHANGED <<chartArgs, chartLocals, figs, buf>>
    /\ UNCHANGED <<splitVars, ratingVars, rankVars, fetchVars, formatVars, handlerVars>>

\* lines 283-285: plt.savefig(buf, ...) saves the current figure; buf.seek(0)
ChartSavefig(c) ==
    /\ chartPc[c] = "savefig"
    /\ buf' = [buf EXCEPT ![c] = Return(Png(figure[CurrentFigure(figs)]))]
    /\ chartPc' = [chartPc EXCEPT ![c] = "close"]
    /\ UNCHANGED <<chartArgs, chartLocals, figs, figure>>
    /\ UNCHANGED <<splitVars, ratingVars, rankVars, fetchVars, formatVars, handlerVars>>

\* lines 286-288: plt.close(fig) closes the call's own figure; return buf
ChartClose(c) ==
    /\ chartPc[c] = "close"
    /\ figs' = SelectSeq(figs, LAMBDA f : f # c)
    /\ chartPc' = [chartPc EXCEPT ![c] = "done"]
    /\ UNCHANGED <<chartArgs, chartLocals, figure, buf>>
    /\ UNCHANGED <<splitVars, ratingVars, rankVars, fetchVars, formatVars, handlerVars>>

\* the title of the chart of a top-N report showing the count n
TopTitle(n) == (* "Top " *) <<84, 111, 112, 32>> \o IntStr(JInt(n)) \o (* " Properties - Ratings Comparison" *) <<
        32, 80, 114, 111, 112, 101, 114, 116, 105, 101, 115, 32, 45, 32, 82, 97, 116, 105, 110,
        103, 115, 32, 67, 111, 109, 112, 97, 114, 105, 115, 111, 110>>

\* the rating fields of the records charted: an int and a float, a str under
\* the other names, and none
ChartShapes ==
    { << <<(* "airbnb_rating" *) <<97, 105, 114, 98, 110, 98, 95, 114, 97, 116, 105, 110, 103>>, JInt(4)>>, <<(* "booking_rating" *) <<
            98, 111, 111, 107, 105, 110, 103, 95, 114, 97, 116, 105, 110, 103>>, JFloat((* "4.5" *) <<
            52, 46, 53>>)>> >>,
      << <<(* "airbnb" *) <<97, 105, 114, 98, 110, 98>>, JStr((* "3.75" *) <<51, 46, 55, 53>>)>> >>,
      <<>> }

\* the ranked entries and titles the calls are given: the top 5 of the lists of
\* one and of two records, and an entry whose name has no length
ChartInputs ==
    { [properties |-> top.v, title |-> TopTitle(5)] :
         top \in {r \in {get_top_rated_properties(props, 5) :
                            props \in PropertyLists(1, RankShapes)
                                      \cup PropertyLists(2, ChartShapes)} :
                     r.t = "return"} }
    \cup { [properties |-> << <<JDict(<< <<(* "name" *) <<110, 97, 109, 101>>, JInt(7)>> >>), Zero(FALSE)>> >>,
            title |-> TopTitle(5)] }

ChartInit ==
    /\ chartPc = [c \in Calls |-> "start"]
    /\ chartLocals = [c \in Calls |-> NoLocals]
    /\ figs = <<>>
    /\ figure = [c \in Calls |-> NoFigure]
    /\ buf = [c \in Calls |-> NotCalled]

-----------------------------------------------------------------------------
(* the handlers of main(): what each sends to the chat, call by call.  A     *)
(* handler is given the update (the arguments of the command, or the data of *)
(* the button pressed) and the answers of the GETs it makes.                 *)

TOP5_LIMIT == 5
TOP20_LIMIT == 20

\* get_main_menu_keyboard(): the rows of buttons, each button its label and its
\* callback_data
MainMenuKeyboard ==
    << << <<(* "\U0001f3c6 Top 5" *) <<127942, 32, 84, 111, 112, 32, 53>>, (* "action_top5" *) <<
            97, 99, 116, 105, 111, 110, 95, 116, 111, 112, 53>>>>, <<(* "\U0001f4c8 Top 20" *) <<
            128200, 32, 84, 111, 112, 32, 50, 48>>, (* "action_top20" *) <<97, 99, 116, 105, 111,
            110, 95, 116, 111, 112, 50, 48>>>> >>,
       << <<(* "\U0001f4ca All Ratings" *) <<128202, 32, 65, 108, 108, 32, 82, 97, 116, 105, 110,
               103, 115>>, (* "action_ratings" *) <<97, 99, 116, 105, 111, 110, 95, 114, 97, 116,
               105, 110, 103, 115>>>>,
          <<(* "\U0001f3e0 Properties" *) <<127968, 32, 80, 114, 111, 112, 101, 114, 116, 105,
                  101, 115>>, (* "action_properties" *) <<97, 99, 116, 105, 111, 110, 95, 112,
                  114, 111, 112, 101, 114, 116, 105, 101, 115>>>> >>,
       << <<(* "\U0001f50d Property Details" *) <<128269, 32, 80, 114, 111, 112, 101, 114, 116,
               121, 32, 68, 101, 116, 97, 105, 108, 115>>, (* "action_property_help" *) <<97, 99,
               116, 105, 111, 110, 95, 112, 114, 111, 112, 101, 114, 116, 121, 95, 104, 101, 108,
               112>>>>,
          <<(* "\U0001f4cb Complaints" *) <<128203, 32, 67, 111, 109, 112, 108, 97, 105, 110,
                  116, 115>>, (* "action_complaints_help" *) <<97, 99, 116, 105, 111, 110, 95,
                  99, 111, 109, 112, 108, 97, 105, 110, 116, 115, 95, 104, 101, 108, 112>>>> >> >>

\* the calls a handler makes on the chat: query.answer(), chat.send_action(a),
\* reply_text(text), reply_text(text, reply_markup=get_main_menu_keyboard()),
\* reply_photo(photo=photo, caption=caption)
QueryAnswer       == [kind |-> "answer"]
ChatAction(a)     == [kind |-> "action", action |-> a]
TextMessage(t)    == [kind |-> "text", text |-> t, reply_markup |-> <<>>]
MenuMessage(t)    == [kind |-> "text", text |-> t, reply_markup |-> MainMenuKeyboard]
PhotoMessage(photo, caption) == [kind |-> "photo", photo |-> photo, caption |-> caption]
\* an exception that leaves the handler (the dispatcher hands an Exception to
\* error_handler)
HandlerError(e)   == [kind |-> "error", exc |-> e]

\* a reply_text for every chunk
ChunkReplies(chunks) == [i \in 1..Len(chunks) |-> TextMessage(chunks[i])]

\* split_and_send(update.message, message)
SendChunks(message) == ChunkReplies(split_and_send(message))

\* the values of a list of outcomes, or the first exception among them
AllOf(outcomes) ==
    IF \E i \in 1..Len(outcomes) : outcomes[i].t = "raise"
    THEN outcomes[Least({i \in 1..Len(outcomes) : outcomes[i].t = "raise"})]
    ELSE Return([i \in 1..Len(outcomes) |-> outcomes[i].v])

\* lines is the outcome of formatting the entries: the exception leaves the
\* handler before anything is sent, or the lines go out between the lines
\* before and after them, joined and through split_and_send
SendLines(lines, before, after) ==
    IF lines.t = "raise" THEN <<HandlerError(lines.exc)>>
    ELSE SendChunks(Join((* "\n" *) <<10>>, before \o lines.v \o after))

\* reply_text(formatted), or the exception of the formatter
SendText(outcome) ==
    IF outcome.t = "raise" THEN <<HandlerError(outcome.exc)>>
    ELSE <<TextMessage(outcome.v)>>

\* start(update, context)
start_command ==
    << MenuMessage(
         (* "\U0001f44b Welcome to the Property Management Bot!\n\n" *) <<128075, 32, 87, 101,
                 108, 99, 111, 109, 101, 32, 116, 111, 32, 116, 104, 101, 32, 80, 114, 111, 112,
                 101, 114, 116, 121, 32, 77, 97, 110, 97, 103, 101, 109, 101, 110, 116, 32, 66,
                 111, 116, 33, 10, 10>>
         \o (* "I can help you with:\n" *) <<73, 32, 99, 97, 110, 32, 104, 101, 108, 112, 32,
                 121, 111, 117, 32, 119, 105, 116, 104, 58, 10>>
         \o (* "\u2022 View property ratings (Airbnb & Booking)\n" *) <<8226, 32, 86, 105, 101,
                 119, 32, 112, 114, 111, 112, 101, 114, 116, 121, 32, 114, 97, 116, 105, 110,
                 103, 115, 32, 40, 65, 105, 114, 98, 110, 98, 32, 38, 32, 66, 111, 111, 107, 105,
                 110, 103, 41, 10>>
         \o (* "\u2022 Browse the list of properties\n" *) <<8226, 32, 66, 114, 111, 119, 115,
                 101, 32, 116, 104, 101, 32, 108, 105, 115, 116, 32, 111, 102, 32, 112, 114, 111,
                 112, 101, 114, 116, 105, 101, 115, 10>>
         \o (* "\u2022 Check complaints for any property\n\n" *) <<8226, 32, 67, 104, 101, 99,
                 107, 32, 99, 111, 109, 112, 108, 97, 105, 110, 116, 115, 32, 102, 111, 114, 32,
                 97, 110, 121, 32, 112, 114, 111, 112, 101, 114, 116, 121, 10, 10>>
         \o (* "Use the menu below or type commands directly:" *) <<85, 115, 101, 32, 116, 104,
                 101, 32, 109, 101, 110, 117, 32, 98, 101, 108, 111, 119, 32, 111, 114, 32, 116,
                 121, 112, 101, 32, 99, 111, 109, 109, 97, 110, 100, 115, 32, 100, 105, 114, 101,
                 99, 116, 108, 121, 58>>) >>

menu_handler == << MenuMessage((* "\U0001f4cc Main Menu\n\nChoose an option below:" *) <<128204,
        32, 77, 97, 105, 110, 32, 77, 101, 110, 117, 10, 10, 67, 104, 111, 111, 115, 101, 32, 97,
        110, 32, 111, 112, 116, 105, 111, 110, 32, 98, 101, 108, 111, 119, 58>>) >>

\* send_action("typing"), the call of a fetcher and what follows it: outcome is
\* the outcome of the fetcher, whose exception leaves the handler, and report
\* what the handler sends once the fetcher has returned
Fetched(outcome, report) ==
    <<ChatAction("typing")>>
    \o (IF outcome.t = "raise" THEN <<HandlerError(outcome.exc)>> ELSE report)

\* what the handler sends once props is fetched
RatingsReply(props, header, noData) ==
    IF ~Truthy(props) THEN <<TextMessage(noData)>>
    ELSE SendLines(AllOf([i \in 1..Len(props.items) |-> format_property(props.items[i])]),
                   <<header>>, <<>>)

RatingsFetched(all_props, header, noData) ==
    Fetched(all_props, RatingsReply(all_props.v, header, noData))

\* the ratings report of ratings_handler and of the action_ratings branch, which
\* differ in the header and in the text for no data
RatingsReport(resp, header, noData) ==
    RatingsFetched(fetch_all_properties(resp), header, noData)

ratings_handler(resp) ==
    RatingsReport(resp, (* "\U0001f3e1 Property Ratings (MockAPI) \n" *) <<127969, 32, 80, 114,
            111, 112, 101, 114, 116, 121, 32, 82, 97, 116, 105, 110, 103, 115, 32, 40, 77, 111,
            99, 107, 65, 80, 73, 41, 32, 10>>,
                  (* "No property data available (check MOCKAPI_URL or network)." *) <<78, 111,
                          32, 112, 114, 111, 112, 101, 114, 116, 121, 32, 100, 97, 116, 97, 32,
                          97, 118, 97, 105, 108, 97, 98, 108, 101, 32, 40, 99, 104, 101, 99, 107,
                          32, 77, 79, 67, 75, 65, 80, 73, 95, 85, 82, 76, 32, 111, 114, 32, 110,
                          101, 116, 119, 111, 114, 107, 41, 46>>)

TopHeader(n)  == (* "\U0001f3c6 Top " *) <<127942, 32, 84, 111, 112, 32>> \o IntStr(JInt(n)) \o (* " Best Rated Properties\n" *) <<
        32, 66, 101, 115, 116, 32, 82, 97, 116, 101, 100, 32, 80, 114, 111, 112, 101, 114, 116,
        105, 101, 115, 10>>
TopCaption(n) == (* "\U0001f4ca Top " *) <<128202, 32, 84, 111, 112, 32>> \o IntStr(JInt(n)) \o (* " Properties Rating Chart" *) <<
        32, 80, 114, 111, 112, 101, 114, 116, 105, 101, 115, 32, 82, 97, 116, 105, 110, 103, 32,
        67, 104, 97, 114, 116>>

\* for rank, (p, avg) in enumerate(top_props, 1): format_top_property(rank, p, avg)
TopLines(top_props) ==
    AllOf([i \in 1..Len(top_props) |->
              format_top_property(i, top_props[i][1], top_props[i][2])])

\* chart_buf = generate_ratings_chart(...); reply_photo(photo=chart_buf, ...)
PhotoReply(chart, shown) ==
    IF chart.t = "raise" THEN <<HandlerError(chart.exc)>>
    ELSE <<PhotoMessage(chart.v, TopCaption(shown))>>

\* the text goes out in one reply_text, or through split_and_send
Summary(message, split) ==
    IF split THEN SendChunks(message) ELSE <<TextMessage(message)>>

\* lines is the outcome of formatting the entries and chart that of
\* generate_ratings_chart, which is called once the text is sent
RankedReply(lines, chart, shown, split) ==
    IF lines.t = "raise" THEN <<HandlerError(lines.exc)>>
    ELSE Summary(Join((* "\n" *) <<10>>, <<TopHeader(shown)>> \o lines.v), split)
         \o <<ChatAction("upload_photo")>>
         \o PhotoReply(chart, shown)

\* what the handler sends once the ranking is made: every count displayed is
\* `shown`
RankedReport(top, shown, split) ==
    IF top.t = "raise" THEN <<HandlerError(top.exc)>>
    ELSE IF top.v = <<>> THEN <<TextMessage((* "Could not calculate ratings." *) <<67, 111, 117,
            108, 100, 32, 110, 111, 116, 32, 99, 97, 108, 99, 117, 108, 97, 116, 101, 32, 114,
            97, 116, 105, 110, 103, 115, 46>>)>>
    ELSE RankedReply(TopLines(top.v), generate_ratings_chart(top.v, TopTitle(shown)),
                     shown, split)

\* what the handler sends once props is fetched: the ranking is asked for
\* `asked` entries and every count displayed is `shown`
TopReport(props, asked, shown, split) ==
    IF props = <<>> THEN <<TextMessage((* "No property data available." *) <<78, 111, 32, 112,
            114, 111, 112, 101, 114, 116, 121, 32, 100, 97, 116, 97, 32, 97, 118, 97, 105, 108,
            97, 98, 108, 101, 46>>)>>
    ELSE RankedReport(get_top_rated_properties(props, asked), shown, split)

\* get_top_rated_properties(props, 5), and the texts "Top 5 ..." whatever it
\* returned; the text is one reply_text
Top5Report(props) == TopReport(props, TOP5_LIMIT, TOP5_LIMIT, FALSE)

\* limit = min(20, len(props)), the texts show limit; the text goes through
\* split_and_send
Top20Report(props) ==
    TopReport(props, Min(TOP20_LIMIT, Len(props)), Min(TOP20_LIMIT, Len(props)), TRUE)

\* all_props is the outcome of fetch_all_properties()
Top5Fetched(all_props) == Fetched(all_props, Top5Report(all_props.v.items))

Top20Fetched(all_props) == Fetched(all_props, Top20Report(all_props.v.items))

top5_handler(resp) == Top5Fetched(fetch_all_properties(resp))

top20_handler(resp) == Top20Fetched(fetch_all_properties(resp))

\* what the handler sends once p is fetched
PropertyReply(pid, p) ==
    IF ~Truthy(p)
    THEN <<TextMessage((* "Property with id " *) <<80, 114, 111, 112, 101, 114, 116, 121, 32,
            119, 105, 116, 104, 32, 105, 100, 32>> \o pid \o (* " not found." *) <<32, 110, 111,
            116, 32, 102, 111, 117, 110, 100, 46>>)>>
    ELSE SendText(format_property(p))

\* found is the outcome of fetch_property_by_id(prop_id)
PropertyFetched(pid, found) == Fetched(found, PropertyReply(pid, found.v))

\* args is context.args; direct and list answer the GETs of fetch_property_by_id
property_handler(args, direct, list) ==
    IF args = <<>> THEN <<TextMessage((* "Usage: /property <id>\nExample: /property 1" *) <<85,
            115, 97, 103, 101, 58, 32, 47, 112, 114, 111, 112, 101, 114, 116, 121, 32, 60, 105,
            100, 62, 10, 69, 120, 97, 109, 112, 108, 101, 58, 32, 47, 112, 114, 111, 112, 101,
            114, 116, 121, 32, 49>>)>>
    ELSE PropertyFetched(args[1], fetch_property_by_id(JStr(args[1]), direct, list))

\* what the handler sends once props is fetched
PropertiesReply(props, hints) ==
    IF ~Truthy(props) THEN <<TextMessage((* "No properties available." *) <<78, 111, 32, 112,
            114, 111, 112, 101, 114, 116, 105, 101, 115, 32, 97, 118, 97, 105, 108, 97, 98, 108,
            101, 46>>)>>
    ELSE SendLines(AllOf([i \in 1..Len(props.items) |->
                             format_property_basic(props.items[i])]),
                   <<(* "\U0001f3e0 Properties List\n" *) <<127968, 32, 80, 114, 111, 112, 101,
                           114, 116, 105, 101, 115, 32, 76, 105, 115, 116, 10>>>>, hints)

PropertiesFetched(props, hints) == Fetched(props, PropertiesReply(props.v, hints))

\* the properties list of properties_handler and of the action_properties
\* branch, which differ in the lines after the list
PropertiesReport(resp, hints) == PropertiesFetched(fetch_properties_list(resp), hints)

properties_handler(resp) ==
    PropertiesReport(resp, << (* "\n\U0001f4a1 Use /property <id> for details" *) <<10, 128161,
            32, 85, 115, 101, 32, 47, 112, 114, 111, 112, 101, 114, 116, 121, 32, 60, 105, 100,
            62, 32, 102, 111, 114, 32, 100, 101, 116, 97, 105, 108, 115>>,
                              (* "\U0001f4a1 Use /complaints <id> to see complaints" *) <<128161,
                                      32, 85, 115, 101, 32, 47, 99, 111, 109, 112, 108, 97, 105,
                                      110, 116, 115, 32, 60, 105, 100, 62, 32, 116, 111, 32, 115,
                                      101, 101, 32, 99, 111, 109, 112, 108, 97, 105, 110, 116,
                                      115>> >>)

\* what `for c in complaints` goes through: the items of a list, the characters
\* of a str, the keys of a dict
Iterate(v) ==
    CASE v.t = "list" -> v.items
      [] v.t = "str"  -> [i \in 1..Len(v.s) |-> JStr(<<v.s[i]>>)]
      [] v.t = "dict" -> [i \in 1..Len(v.pairs) |-> JStr(v.pairs[i][1])]

\* lines.append(format_complaint(c)); lines.append("") for every complaint
ComplaintLines(blocks) ==
    IF blocks.t = "raise" THEN blocks
    ELSE Return([i \in 1..(2 * Len(blocks.v)) |->
                    IF i % 2 = 1 THEN blocks.v[(i + 1) \div 2] ELSE <<>>])

FormatComplaints(cs) == AllOf([i \in 1..Len(cs) |-> format_complaint(cs[i])])

\* the report on complaints that are not empty, about being the name and id of
\* the property and count the outcome of len(complaints)
ComplaintsFound(about, complaints, count) ==
    IF count.t = "raise" THEN <<HandlerError(count.exc)>>
    ELSE SendLines(ComplaintLines(FormatComplaints(Iterate(complaints))),
                   << (* "\U0001f4cb Complaints for " *) <<128203, 32, 67, 111, 109, 112, 108,
                           97, 105, 110, 116, 115, 32, 102, 111, 114, 32>> \o about \o (* "\n" *) <<
                           10>>,
                      (* "Total: " *) <<84, 111, 116, 97, 108, 58, 32>> \o IntStr(JInt(count.v)) \o (* " complaint(s)\n" *) <<
                              32, 99, 111, 109, 112, 108, 97, 105, 110, 116, 40, 115, 41, 10>> >>,
                   <<>>)

ComplaintsAbout(about, complaints) ==
    IF ~Truthy(complaints)
    THEN <<TextMessage((* "No complaints found for " *) <<78, 111, 32, 99, 111, 109, 112, 108,
            97, 105, 110, 116, 115, 32, 102, 111, 117, 110, 100, 32, 102, 111, 114, 32>> \o about \o (* "." *) <<
            46>>)>>
    ELSE ComplaintsFound(about, complaints, PyLen(complaints))

\* lines 481-495: the report on the complaints fetched for the property prop,
\* complaints being the outcome of fetch_complaints_for_property(prop_id)
ComplaintsReport(prop_id, prop, complaints) ==
    IF complaints.t = "raise" THEN <<HandlerError(complaints.exc)>>
    ELSE IF prop.t # "dict" THEN <<HandlerError("AttributeError")>>
    ELSE ComplaintsAbout(Str(Get(prop, (* "name" *) <<110, 97, 109, 101>>, JStr((* "Property " *) <<
            80, 114, 111, 112, 101, 114, 116, 121, 32>> \o prop_id)))
                         \o (* " (id: " *) <<32, 40, 105, 100, 58, 32>> \o prop_id \o (* ")" *) <<
                                 41>>,
                         complaints.v)

\* what the handler sends once prop is fetched
ComplaintsReply(pid, prop, answer) ==
    IF ~Truthy(prop)
    THEN <<TextMessage((* "Property with id " *) <<80, 114, 111, 112, 101, 114, 116, 121, 32,
            119, 105, 116, 104, 32, 105, 100, 32>> \o pid \o (* " not found." *) <<32, 110, 111,
            116, 32, 102, 111, 117, 110, 100, 46>>)>>
    ELSE ComplaintsReport(pid, prop, fetch_complaints_for_property(answer))

\* found is the outcome of fetch_property_by_id(prop_id)
ComplaintsFetched(pid, found, answer) ==
    Fetched(found, ComplaintsReply(pid, found.v, answer))

\* answer answers the GET of fetch_complaints_for_property; it is NoRequest when
\* COMPLAINTS_URL is not set
complaints_handler(args, direct, list, answer) ==
    IF args = <<>>
    THEN <<TextMessage((* "Usage: /complaints <property_id>\n" *) <<85, 115, 97, 103, 101, 58,
            32, 47, 99, 111, 109, 112, 108, 97, 105, 110, 116, 115, 32, 60, 112, 114, 111, 112,
            101, 114, 116, 121, 95, 105, 100, 62, 10>>
                       \o (* "Example: /complaints 1\n\n" *) <<69, 120, 97, 109, 112, 108, 101,
                               58, 32, 47, 99, 111, 109, 112, 108, 97, 105, 110, 116, 115, 32,
                               49, 10, 10>>
                       \o (* "This will show all complaints for the specified property." *) <<84,
                               104, 105, 115, 32, 119, 105, 108, 108, 32, 115, 104, 111, 119, 32,
                               97, 108, 108, 32, 99, 111, 109, 112, 108, 97, 105, 110, 116, 115,
                               32, 102, 111, 114, 32, 116, 104, 101, 32, 115, 112, 101, 99, 105,
                               102, 105, 101, 100, 32, 112, 114, 111, 112, 101, 114, 116, 121,
                               46>>)>>
    ELSE IF answer = NoRequest
    THEN <<TextMessage((* "Complaints feature is not configured.\n" *) <<67, 111, 109, 112, 108,
            97, 105, 110, 116, 115, 32, 102, 101, 97, 116, 117, 114, 101, 32, 105, 115, 32, 110,
            111, 116, 32, 99, 111, 110, 102, 105, 103, 117, 114, 101, 100, 46, 10>>
                       \o (* "Please set COMPLAINTS_URL in environment variables." *) <<80, 108,
                               101, 97, 115, 101, 32, 115, 101, 116, 32, 67, 79, 77, 80, 76, 65,
                               73, 78, 84, 83, 95, 85, 82, 76, 32, 105, 110, 32, 101, 110, 118,
                               105, 114, 111, 110, 109, 101, 110, 116, 32, 118, 97, 114, 105, 97,
                               98, 108, 101, 115, 46>>)>>
    ELSE ComplaintsFetched(args[1], fetch_property_by_id(JStr(args[1]), direct, list),
                           answer)

\* the branches action_top5 and action_top20: the bodies of top5_handler and
\* top20_handler once more
TopBranch(data, all_props) ==
    IF data = (* "action_top5" *) <<97, 99, 116, 105, 111, 110, 95, 116, 111, 112, 53>> THEN Top5Fetched(all_props) ELSE Top20Fetched(all_props)

\* data is query.data; resp answers the GET the branch makes.  Data of no
\* branch is answered and nothing else
button_callback_handler(data, resp) ==
    <<QueryAnswer>>
    \o (CASE data \in {(* "action_top5" *) <<97, 99, 116, 105, 111, 110, 95, 116, 111, 112, 53>>, (* "action_top20" *) <<
            97, 99, 116, 105, 111, 110, 95, 116, 111, 112, 50, 48>>} ->
                TopBranch(data, fetch_all_properties(resp))
         [] data = (* "action_ratings" *) <<97, 99, 116, 105, 111, 110, 95, 114, 97, 116, 105,
                 110, 103, 115>> ->
                RatingsReport(resp, (* "\U0001f3e1 Property Ratings\n" *) <<127969, 32, 80, 114,
                        111, 112, 101, 114, 116, 121, 32, 82, 97, 116, 105, 110, 103, 115, 10>>, (* "No property data available." *) <<
                        78, 111, 32, 112, 114, 111, 112, 101, 114, 116, 121, 32, 100, 97, 116,
                        97, 32, 97, 118, 97, 105, 108, 97, 98, 108, 101, 46>>)
         [] data = (* "action_properties" *) <<97, 99, 116, 105, 111, 110, 95, 112, 114, 111,
                 112, 101, 114, 116, 105, 101, 115>> ->
                PropertiesReport(resp, << (* "\n\U0001f4a1 Use /property <id> for details" *) <<
                        10, 128161, 32, 85, 115, 101, 32, 47, 112, 114, 111, 112, 101, 114, 116,
                        121, 32, 60, 105, 100, 62, 32, 102, 111, 114, 32, 100, 101, 116, 97, 105,
                        108, 115>> >>)
         [] data = (* "action_property_help" *) <<97, 99, 116, 105, 111, 110, 95, 112, 114, 111,
                 112, 101, 114, 116, 121, 95, 104, 101, 108, 112>> ->
                <<TextMessage((* "\U0001f50d Property Details\n\n" *) <<128269, 32, 80, 114, 111,
                        112, 101, 114, 116, 121, 32, 68, 101, 116, 97, 105, 108, 115, 10, 10>>
                              \o (* "To view details for a specific property, use:\n" *) <<84,
                                      111, 32, 118, 105, 101, 119, 32, 100, 101, 116, 97, 105,
                                      108, 115, 32, 102, 111, 114, 32, 97, 32, 115, 112, 101, 99,
                                      105, 102, 105, 99, 32, 112, 114, 111, 112, 101, 114, 116,
                                      121, 44, 32, 117, 115, 101, 58, 10>>
                              \o (* "/property <id>\n\n" *) <<47, 112, 114, 111, 112, 101, 114,
                                      116, 121, 32, 60, 105, 100, 62, 10, 10>>
                              \o (* "Example: /property 1" *) <<69, 120, 97, 109, 112, 108, 101,
                                      58, 32, 47, 112, 114, 111, 112, 101, 114, 116, 121, 32, 49>>)>>
         [] data = (* "action_complaints_help" *) <<97, 99, 116, 105, 111, 110, 95, 99, 111, 109,
                 112, 108, 97, 105, 110, 116, 115, 95, 104, 101, 108, 112>> ->
                <<TextMessage((* "\U0001f4cb View Complaints\n\n" *) <<128203, 32, 86, 105, 101,
                        119, 32, 67, 111, 109, 112, 108, 97, 105, 110, 116, 115, 10, 10>>
                              \o (* "To see complaints for a specific property, use:\n" *) <<84,
                                      111, 32, 115, 101, 101, 32, 99, 111, 109, 112, 108, 97,
                                      105, 110, 116, 115, 32, 102, 111, 114, 32, 97, 32, 115,
                                      112, 101, 99, 105, 102, 105, 99, 32, 112, 114, 111, 112,
                                      101, 114, 116, 121, 44, 32, 117, 115, 101, 58, 10>>
                              \o (* "/complaints <property_id>\n\n" *) <<47, 99, 111, 109, 112,
                                      108, 97, 105, 110, 116, 115, 32, 60, 112, 114, 111, 112,
                                      101, 114, 116, 121, 95, 105, 100, 62, 10, 10>>
                              \o (* "Example: /complaints 1" *) <<69, 120, 97, 109, 112, 108,
                                      101, 58, 32, 47, 99, 111, 109, 112, 108, 97, 105, 110, 116,
                                      115, 32, 49>>)>>
         [] OTHER -> <<>>)

-----------------------------------------------------------------------------
(* the inputs of the handlers, and the handlers as actions *)

\* bounds of the lists the handlers are answered with
MaxExtra == 1
MaxVariants == 4
MaxNamePad == 300

HandlerLens ==
    {0, 1, 3}
    \cup ((TOP5_LIMIT - 1)..(TOP5_LIMIT + MaxExtra))
    \cup ((TOP20_LIMIT - 1)..(TOP20_LIMIT + MaxExtra))

\* rating fields, and fields that only the listings show, in a row
ShapeRow ==
    << << <<(* "airbnb_rating" *) <<97, 105, 114, 98, 110, 98, 95, 114, 97, 116, 105, 110, 103>>, JInt(4)>>, <<(* "booking_rating" *) <<
            98, 111, 111, 107, 105, 110, 103, 95, 114, 97, 116, 105, 110, 103>>, JInt(5)>> >>,
       << <<(* "airbnb" *) <<97, 105, 114, 98, 110, 98>>, JInt(3)>>, <<(* "id" *) <<105, 100>>, JInt(7)>>, <<(* "location" *) <<
               108, 111, 99, 97, 116, 105, 111, 110>>, JStr((* "Rome" *) <<82, 111, 109, 101>>)>> >>,
       <<>>,
       << <<(* "airbnb_rating" *) <<97, 105, 114, 98, 110, 98, 95, 114, 97, 116, 105, 110, 103>>, JStr((* "4.5" *) <<
               52, 46, 53>>)>>, <<(* "address" *) <<97, 100, 100, 114, 101, 115, 115>>, JStr((* "Elm St" *) <<
               69, 108, 109, 32, 83, 116>>)>> >>,
       << <<(* "airbnb" *) <<97, 105, 114, 98, 110, 98>>, JStr((* "N/A" *) <<78, 47, 65>>)>>, <<(* "booking" *) <<
               98, 111, 111, 107, 105, 110, 103>>, JFloat((* "5.0" *) <<53, 46, 48>>)>>,
          <<(* "url" *) <<117, 114, 108>>, JStr((* "http://x" *) <<104, 116, 116, 112, 58, 47,
                  47, 120>>)>> >> >>

\* the list of n records named "1", "2", ... (each name followed by pad letters
\* x), their other fields taken from ShapeRow in steps of v
HandlerList(n, v, pad) ==
    JList([i \in 1..n |->
              JDict(<< <<(* "name" *) <<110, 97, 109, 101>>, JStr(IntStr(JInt(i)) \o [k \in 1..pad |-> 120])>> >>
                    \o ShapeRow[((i * v) % Len(ShapeRow)) + 1])])

\* what the GET of the property list is answered with: failures, a list that
\* holds something else than records, lists of records of every length tried,
\* and lists whose report is longer than one message
HandlerResponses ==
    { TransportError("Timeout"), HttpResponse(500, JList(<<>>)),
      HttpResponse(200, JList(<<JInt(7)>>)) }
    \cup {HttpResponse(200, HandlerList(n, v, 0)) : n \in HandlerLens, v \in 1..MaxVariants}
    \cup {HttpResponse(200, HandlerList(n, 1, MaxNamePad)) : n \in {TOP5_LIMIT, TOP20_LIMIT}}

\* context.args of /property and /complaints
CommandArgs == { <<>>, <<(* "7" *) <<55>>>>, <<(* "8" *) <<56>>, (* "x" *) <<120>>>> }

\* what the GETs of fetch_property_by_id are answered with, for the handlers
HandlerDirect ==
    { HttpResponse(200, JDict(<< <<(* "id" *) <<105, 100>>, JStr((* "7" *) <<55>>)>>, <<(* "name" *) <<
            110, 97, 109, 101>>, JStr((* "A" *) <<65>>)>> >>)),
      HttpResponse(200, JDict(<<>>)), HttpResponse(200, JStr((* "x" *) <<120>>)),
      HttpResponse(404, JStr((* "x" *) <<120>>)), TransportError("Timeout") }

HandlerIdLists ==
    { HttpResponse(200, JList(<< JDict(<< <<(* "id" *) <<105, 100>>, JStr((* "8" *) <<56>>)>>, <<(* "name" *) <<
            110, 97, 109, 101>>, JStr((* "C" *) <<67>>)>> >>),
                                 JDict(<< <<(* "id" *) <<105, 100>>, JInt(7)>> >>) >>)),
      HttpResponse(500, JList(<<>>)) }

\* complaints: a title, a description and a severity; a description of 250
\* characters and a date; a description that is a number
Complaints ==
    << JDict(<< <<(* "id" *) <<105, 100>>, JInt(1)>>, <<(* "title" *) <<116, 105, 116, 108, 101>>, JStr((* "Noise" *) <<
            78, 111, 105, 115, 101>>)>>,
                <<(* "description" *) <<100, 101, 115, 99, 114, 105, 112, 116, 105, 111, 110>>, JStr((* "loud" *) <<
                        108, 111, 117, 100>>)>>, <<(* "severity" *) <<115, 101, 118, 101, 114,
                        105, 116, 121>>, JStr((* "high" *) <<104, 105, 103, 104>>)>> >>),
       JDict(<< <<(* "subject" *) <<115, 117, 98, 106, 101, 99, 116>>, JStr((* "Heating" *) <<72,
               101, 97, 116, 105, 110, 103>>)>>, <<(* "message" *) <<109, 101, 115, 115, 97, 103,
               101>>, LongDescription>>,
                <<(* "date" *) <<100, 97, 116, 101>>, JStr((* "2024-01-01" *) <<50, 48, 50, 52,
                        45, 48, 49, 45, 48, 49>>)>> >>),
       JDict(<< <<(* "description" *) <<100, 101, 115, 99, 114, 105, 112, 116, 105, 111, 110>>, JInt(7)>> >>) >>

\* what the GET of fetch_complaints_for_property is answered with (NoRequest:
\* COMPLAINTS_URL is not set)
ComplaintAnswers ==
    { NoRequest, HttpResponse(500, JList(<<>>)), HttpResponse(200, JList(<<>>)),
      HttpResponse(200, JList(SubSeq(Complaints, 1, 1))),
      HttpResponse(200, JList(SubSeq(Complaints, 1, 2))),
      HttpResponse(200, JList(Complaints)),
      HttpResponse(200, JList([i \in 1..40 |-> Complaints[2]])),
      HttpResponse(200, JDict(<< <<(* "data" *) <<100, 97, 116, 97>>, JList(SubSeq(Complaints, 1, 1))>> >>)),
      HttpResponse(200, JDict(<< <<(* "data" *) <<100, 97, 116, 97>>, None>> >>)),
      HttpResponse(200, JDict(<< <<(* "data" *) <<100, 97, 116, 97>>, JStr((* "x" *) <<120>>)>> >>)),
      HttpResponse(200, JDict(<< <<(* "data" *) <<100, 97, 116, 97>>, JInt(7)>> >>)) }

\* query.data: the callback_data of the buttons of the menu, and one of no button
ButtonData ==
    {MainMenuKeyboard[row][col][2] : row \in 1..3, col \in 1..2} \cup {(* "action_other" *) <<97,
            99, 116, 105, 111, 110, 95, 111, 116, 104, 101, 114>>}

\* the update a handler is given, and the answers of its GETs
Update(args, data, resp, direct, list, answer) ==
    [args |-> args, data |-> data, resp |-> resp, direct |-> direct, list |-> list,
     answer |-> answer]

\* the arguments and answers of /property
PropertyUpdates ==
    { Update(<<>>, <<>>, NoRequest, NoRequest, NoRequest, NoRequest) }
    \cup { Update(args, <<>>, NoRequest, direct, list, NoRequest) :
              args \in CommandArgs \ {<<>>}, direct \in HandlerDirect,
              list \in HandlerIdLists \cup {NoRequest} }

\* the arguments and answers of /complaints
ComplaintUpdates ==
    { Update(<<>>, <<>>, NoRequest, NoRequest, NoRequest, answer) :
         answer \in {NoRequest, HttpResponse(200, JList(<<>>))} }
    \cup { Update(args, <<>>, NoRequest, NoRequest, NoRequest, NoRequest) :
              args \in CommandArgs \ {<<>>} }
    \cup { Update(args, <<>>, NoRequest, direct, list, answer) :
              args \in CommandArgs \ {<<>>}, direct \in HandlerDirect,
              list \in HandlerIdLists \cup {NoRequest},
              answer \in ComplaintAnswers \ {NoRequest} }

\* the fallback list is requested exactly when the direct GET asks for it
Requested(u) == NeedsList(u.direct) <=> u.list # NoRequest

HandlerInit ==
    /\ handler = "none"
    /\ update = NotCalled
    /\ replies = <<>>

StartCommand ==
    /\ handler = "none"
    /\ handler' = "start"
    /\ update' = Update(<<>>, <<>>, NoRequest, NoRequest, NoRequest, NoRequest)
    /\ replies' = start_command
    /\ UNCHANGED <<splitVars, ratingVars, rankVars, fetchVars, formatVars, chartVars>>

MenuHandler ==
    /\ handler = "none"
    /\ handler' = "menu_handler"
    /\ update' = Update(<<>>, <<>>, NoRequest, NoRequest, NoRequest, NoRequest)
    /\ replies' = menu_handler
    /\ UNCHANGED <<splitVars, ratingVars, rankVars, fetchVars, formatVars, chartVars>>

RatingsHandler ==
    /\ handler = "none"
    /\ handler' = "ratings_handler"
    /\ \E resp \in HandlerResponses :
          /\ update' = Update(<<>>, <<>>, resp, NoRequest, NoRequest, NoRequest)
          /\ replies' = ratings_handler(resp)
    /\ UNCHANGED <<splitVars, ratingVars, rankVars, fetchVars, formatVars, chartVars>>

Top5Handler ==
    /\ handler = "none"
    /\ handler' = "top5_handler"
    /\ \E resp \in HandlerResponses :
          /\ update' = Update(<<>>, <<>>, resp, NoRequest, NoRequest, NoRequest)
          /\ replies' = top5_handler(resp)
    /\ UNCHANGED <<splitVars, ratingVars, rankVars, fetchVars, formatVars, chartVars>>

Top20Handler ==
    /\ handler = "none"
    /\ handler' = "top20_handler"
    /\ \E resp \in HandlerResponses :
          /\ update' = Update(<<>>, <<>>, resp, NoRequest, NoRequest, NoRequest)
          /\ replies' = top20_handler(resp)
    /\ UNCHANGED <<splitVars, ratingVars, rankVars, fetchVars, formatVars, chartVars>>

PropertiesHandler ==
    /\ handler = "none"
    /\ handler' = "properties_handler"
    /\ \E resp \in HandlerResponses :
          /\ update' = Update(<<>>, <<>>, resp, NoRequest, NoRequest, NoRequest)
          /\ replies' = properties_handler(resp)
    /\ UNCHANGED <<splitVars, ratingVars, rankVars, fetchVars, formatVars, chartVars>>

PropertyHandler ==
    /\ handler = "none"
    /\ handler' = "property_handler"
    /\ \E u \in PropertyUpdates :
          /\ Requested(u)
          /\ update' = u
          /\ replies' = property_handler(u.args, u.direct, u.list)
    /\ UNCHANGED <<splitVars, ratingVars, rankVars, fetchVars, formatVars, chartVars>>

ComplaintsHandler ==
    /\ handler = "none"
    /\ handler' = "complaints_handler"
    /\ \E u \in ComplaintUpdates :
          /\ Requested(u)
          /\ update' = u
          /\ replies' = complaints_handler(u.args, u.direct, u.list, u.answer)
    /\ UNCHANGED <<splitVars, ratingVars, rankVars, fetchVars, formatVars, chartVars>>

ButtonCallbackHandler ==
    /\ handler = "none"
    /\ handler' = "button_callback_handler"
    /\ \E data \in ButtonData, resp \in HandlerResponses :
          /\ update' = Update(<<>>, data, resp, NoRequest, NoRequest, NoRequest)
          /\ replies' = button_callback_handler(data, resp)
    /\ UNCHANGED <<splitVars, ratingVars, rankVars, fetchVars, formatVars, chartVars>>

-----------------------------------------------------------------------------
(* the specifications: one per group of operations, and all of them together *)

IdleSplit  == text = <<>> /\ start = 0 /\ sent = <<>> /\ splitPc = "idle"
IdleRating == rec = JDict(<<>>) /\ score = Idle
IdleRank   == properties = <<>> /\ limit = 0 /\ ranked = Idle
IdleFetch  == /\ fetcher = "idle" /\ response = Idle /\ fetched = Idle
              /\ propertyId = Idle /\ listResponse = Idle
IdleFormat == fmtRec = JDict(<<>>) /\ formatter = "idle" /\ formatted = Idle
IdleHandler == handler = "idle" /\ update = Idle /\ replies = <<>>
IdleChart  == /\ chartArgs = <<>> /\ chartPc = <<>> /\ chartLocals = <<>>
              /\ figs = <<>> /\ figure = <<>> /\ buf = <<>>

InitSplit ==
    /\ text \in Texts
    /\ SplitInit
    /\ IdleRating /\ IdleRank /\ IdleFetch /\ IdleFormat
    /\ IdleHandler /\ IdleChart

InitRating ==
    /\ rec \in RatingRecords
    /\ RatingInit
    /\ IdleSplit /\ IdleRank /\ IdleFetch /\ IdleFormat
    /\ IdleHandler /\ IdleChart

InitRank ==
    /\ \E input \in RankInputs :
          /\ properties = input.properties
          /\ limit = input.limit
    /\ RankInit
    /\ IdleSplit /\ IdleRating /\ IdleFetch /\ IdleFormat
    /\ IdleHandler /\ IdleChart

InitFetch ==
    /\ FetchInit
    /\ IdleSplit /\ IdleRating /\ IdleRank /\ IdleFormat
    /\ IdleHandler /\ IdleChart

InitFormat ==
    /\ fmtRec \in FormatRecords
    /\ FormatInit
    /\ IdleSplit /\ IdleRating /\ IdleRank /\ IdleFetch
    /\ IdleHandler /\ IdleChart

InitHandlers ==
    /\ HandlerInit
    /\ IdleSplit /\ IdleRating /\ IdleRank /\ IdleFetch /\ IdleFormat /\ IdleChart

InitChart ==
    /\ chartArgs \in [Calls -> ChartInputs]
    /\ ChartInit
    /\ IdleSplit /\ IdleRating /\ IdleRank /\ IdleFetch /\ IdleFormat /\ IdleHandler

NextSplit  == split_and_send_loop \/ split_and_send_return
NextRating == RateProperty
NextRank   == RankProperties
NextFetch  == \/ FetchAllProperties
              \/ FetchPropertiesList
              \/ FetchComplaintsForProperty
              \/ FetchPropertyById
NextFormat == \/ FormatProperty
              \/ FormatPropertyBasic
              \/ FormatTopProperty
              \/ FormatComplaint
NextHandlers == \/ StartCommand
                \/ MenuHandler
                \/ RatingsHandler
                \/ Top5Handler
                \/ Top20Handler
                \/ PropertiesHandler
                \/ PropertyHandler
                \/ ComplaintsHandler
                \/ ButtonCallbackHandler
NextChart  == \E c \in Calls :
                 \/ ChartPrepare(c)
                 \/ ChartSubplots(c)
                 \/ ChartBarhAirbnb(c)
                 \/ ChartBarhBooking(c)
                 \/ ChartLabelAirbnb(c)
                 \/ ChartLabelBooking(c)
                 \/ ChartSetYticks(c)
                 \/ ChartSetYticklabels(c)
                 \/ ChartInvertYaxis(c)
                 \/ ChartSetXlabel(c)
                 \/ ChartSetTitle(c)
                 \/ ChartLegend(c)
                 \/ ChartSetXlim(c)
                 \/ ChartGrid(c)
                 \/ ChartTightLayout(c)
                 \/ ChartSavefig(c)
                 \/ ChartClose(c)

SpecSplit  == InitSplit /\ [][NextSplit]_vars
SpecRating == InitRating /\ [][NextRating]_vars
SpecRank   == InitRank /\ [][NextRank]_vars
SpecFetch  == InitFetch /\ [][NextFetch]_vars
SpecFormat == InitFormat /\ [][NextFormat]_vars
SpecHandlers == InitHandlers /\ [][NextHandlers]_vars
SpecChart  == InitChart /\ [][NextChart]_vars

Init == \/ InitSplit \/ InitRating \/ InitRank \/ InitFetch \/ InitFormat
        \/ InitHandlers \/ InitChart
Next == \/ NextSplit \/ NextRating \/ NextRank \/ NextFetch \/ NextFormat
        \/ NextHandlers \/ NextChart
Spec == Init /\ [][Next]_vars

-----------------------------------------------------------------------------
(* the properties checked *)

CeilDiv(a, b) == (a + b - 1) \div b

\* C1 (SpecSplit): every chunk sent has at most TELEGRAM_MAX_LEN characters; the
\* chunks sent so far, joined in send order, are the text up to start; and when
\* split_and_send returns they are the whole text, in ceil(L / N) chunks (none
\* for the empty text).
C1_ChunksCoverText ==
    /\ \A i \in 1..Len(sent) : Len(sent[i]) <= TELEGRAM_MAX_LEN
    /\ Concat(sent) = SubSeq(text, 1, Min(start, Len(text)))
    /\ splitPc = "done" =>
          /\ Concat(sent) = text
          /\ Len(sent) = CeilDiv(Len(text), TELEGRAM_MAX_LEN)
          /\ (text = <<>> => sent = <<>>)
          /\ sent = split_and_send(text)

\* 9000 characters were sent as chunks of 4000, 4000 and 1000
C1_Witness ==
    /\ splitPc = "done"
    /\ Len(text) = 9000
    /\ Len(sent) = 3
    /\ <<Len(sent[1]), Len(sent[2]), Len(sent[3])>> = <<4000, 4000, 1000>>

\* C2 (SpecRank): for every list of records and every limit of 0 or more,
\* get_top_rated_properties returns exactly min(limit, len(properties)) entries.
C2_LengthIsMin ==
    ranked # NotCalled =>
        /\ ranked.t = "return"
        /\ Len(ranked.v) = Min(limit, Len(properties))

\* the positions of the input whose record is among the entries returned
Included(entries, props) ==
    {j \in 1..Len(props) : \E i \in 1..Len(entries) : entries[i][1] = props[j]}

\* C3 (SpecRank): whenever get_top_rated_properties returns, no entry returned
\* has a lower score than an entry after it, each entry is a record of the input
\* paired with its get_property_rating, no record is returned twice, and no
\* record left out has a greater score than one returned.
C3_SortedTopScores ==
    (ranked # NotCalled /\ ranked.t = "return") =>
        /\ \A i, k \in 1..Len(ranked.v) :
              i < k => ~DblLt(ranked.v[i][2], ranked.v[k][2])
        /\ \A i \in 1..Len(ranked.v) :
              \E j \in 1..Len(properties) :
                 /\ ranked.v[i][1] = properties[j]
                 /\ Return(ranked.v[i][2]) = get_property_rating(properties[j])
        /\ \A i, k \in 1..Len(ranked.v) : i # k => ranked.v[i][1] # ranked.v[k][1]
        /\ \A j \in (1..Len(properties)) \ Included(ranked.v, properties) :
              \A i \in 1..Len(ranked.v) :
                 ~DblLt(ranked.v[i][2], get_property_rating(properties[j]).v)

\* the position of record p in the input (the records of a list differ by name)
PositionOf(p, props) == CHOOSE j \in 1..Len(props) : props[j] = p

\* two scores are equal: neither is a nan, and neither is below the other
SameScore(x, y) == ~IsNan(x) /\ ~IsNan(y) /\ DblCmp(x, y) = 0

\* C4 (SpecRank): whenever get_top_rated_properties returns, of two entries with
\* equal scores the record earlier in the input comes earlier in the output,
\* and when the limit cuts inside a group of ties the records kept are the ones
\* earlier in the input.
C4_StableRanking ==
    (ranked # NotCalled /\ ranked.t = "return") =>
        /\ \A i, k \in 1..Len(ranked.v) :
              (i < k /\ SameScore(ranked.v[i][2], ranked.v[k][2])) =>
                 PositionOf(ranked.v[i][1], properties)
                    < PositionOf(ranked.v[k][1], properties)
        /\ \A j \in (1..Len(properties)) \ Included(ranked.v, properties) :
              \A i \in 1..Len(ranked.v) :
                 SameScore(get_property_rating(properties[j]).v, ranked.v[i][2]) =>
                    PositionOf(ranked.v[i][1], properties) < j

\* the sub-rating of p: the value under the primary key when p has that key,
\* else the value under the alias key, else None
SubRating(p, primary, alias) ==
    IF Has(p, primary) THEN Get(p, primary, None)
    ELSE IF Has(p, alias) THEN Get(p, alias, None)
    ELSE None

\* v is a number, or a string, that has a float
Coercible(v) ==
    /\ v.t \in {"int", "float", "bool", "str"}
    /\ float(v).t = "return"

\* the float values of the sub-ratings of p that are present and coercible
Surviving(p) ==
    LET a == SubRating(p, RatingKeys[1], RatingKeys[2])
        b == SubRating(p, RatingKeys[3], RatingKeys[4])
    IN  (IF Coercible(a) THEN <<float(a).v>> ELSE <<>>)
        \o (IF Coercible(b) THEN <<float(b).v>> ELSE <<>>)

\* the arithmetic mean of two floats: the exact (x + y) / 2, rounded once
ExactMean(x, y) ==
    LET e2 == Min(x.e, y.e)
        a  == ShiftLeft(x.m, x.e - e2)
        b  == ShiftLeft(y.m, y.e - e2)
    IN  IF IsNan(x) \/ IsNan(y) THEN Nan
        ELSE IF x.k = "inf" THEN (IF y.k = "inf" /\ y.neg # x.neg THEN Nan ELSE x)
        ELSE IF y.k = "inf" THEN y
        ELSE IF x.neg = y.neg THEN Round53(x.neg, BigAdd(a, b), e2 - 1, FALSE)
        ELSE IF BigCmp(a, b) = 0 THEN Zero(FALSE)
        ELSE IF BigCmp(a, b) = 1 THEN Round53(x.neg, BigSub(a, b), e2 - 1, FALSE)
        ELSE Round53(y.neg, BigSub(b, a), e2 - 1, FALSE)

\* x and y are the same number (0.0 and -0.0 are), or both are a nan
SameNumber(x, y) ==
    IF IsNan(x) \/ IsNan(y) THEN IsNan(x) /\ IsNan(y) ELSE DblCmp(x, y) = 0

\* C5 (SpecRating): get_property_rating never raises; it returns 0.0 when no
\* sub-rating is present and coercible, the surviving value when one is, and
\* the mean of the two when both are.
C5_MeanOfSurviving ==
    score # NotCalled =>
        /\ score.t = "return"
        /\ Len(Surviving(rec)) = 0 => score.v = Zero(FALSE)
        /\ Len(Surviving(rec)) = 1 => SameNumber(score.v, Surviving(rec)[1])
        /\ Len(Surviving(rec)) = 2 =>
              SameNumber(score.v, ExactMean(Surviving(rec)[1], Surviving(rec)[2]))

\* p with the value under key `alias` moved to key `primary`
Promote(p, alias, primary) ==
    JDict([i \in 1..Len(p.pairs) |->
              IF p.pairs[i][1] = alias THEN <<primary, p.pairs[i][2]>> ELSE p.pairs[i]])

AliasOnly(p, alias, primary) == Has(p, alias) /\ ~Has(p, primary)

\* C6 (SpecRating): a record with `airbnb` and no `airbnb_rating` gets the
\* outcome of the record that carries the same value under `airbnb_rating`,
\* whatever the other sub-rating is; likewise `booking` and `booking_rating`.
C6_AliasSameScore ==
    score # NotCalled =>
        /\ AliasOnly(rec, RatingKeys[2], RatingKeys[1]) =>
              score = get_property_rating(Promote(rec, RatingKeys[2], RatingKeys[1]))
        /\ AliasOnly(rec, RatingKeys[4], RatingKeys[3]) =>
              score = get_property_rating(Promote(rec, RatingKeys[4], RatingKeys[3]))

\* a record with airbnb "4.5" only under the alias, and booking_rating 5.0, was
\* rated 4.75
C6_Witness ==
    /\ rec = JDict(<< <<(* "airbnb" *) <<97, 105, 114, 98, 110, 98>>, JStr((* "4.5" *) <<52, 46,
            53>>)>>, <<(* "booking_rating" *) <<98, 111, 111, 107, 105, 110, 103, 95, 114, 97,
            116, 105, 110, 103>>, JFloat((* "5.0" *) <<53, 46, 48>>)>> >>)
    /\ score = Return(JFloat((* "4.75" *) <<52, 46, 55, 53>>))

ListFetchers ==
    {"fetch_all_properties", "fetch_properties_list", "fetch_complaints_for_property"}

EmptyList == Return(JList(<<>>))

\* a request was made, and it failed in the transport, with a status of the
\* given set, or with a body that is no JSON
Failed(resp, statuses) ==
    \/ resp.t = "error"
    \/ /\ resp.t = "http"
       /\ (resp.status \in statuses \/ resp.body = Unparsable)

\* C7 (SpecFetch), as amended: no exception leaves a fetcher, and a transport
\* error, a timeout, a 4xx or 5xx status or an unparsable body gives the empty
\* list.
C7_FailureGivesEmpty ==
    fetcher \in ListFetchers =>
        /\ fetched.t = "return"
        /\ Failed(response, 400..599) => fetched = EmptyList

\* fetch_all_properties turned a 500 that carried a list of two into []
C7_Witness ==
    /\ fetcher = "fetch_all_properties"
    /\ response.t = "http"
    /\ response.status = 500
    /\ response.body.t = "list"
    /\ Len(response.body.items) = 2
    /\ fetched = EmptyList

\* C7 as stated: every status outside 2xx gives the empty list.
C7_NonSuccessGivesEmpty ==
    fetcher \in ListFetchers =>
        /\ fetched.t = "return"
        /\ Failed(response, (100..599) \ (200..299)) => fetched = EmptyList

\* the list a parsed body stands for: itself, the list under "data", or []
AcceptedList(body) ==
    IF body.t = "list" THEN body
    ELSE IF body.t = "dict" /\ Has(body, (* "data" *) <<100, 97, 116, 97>>) /\ Get(body, (* "data" *) <<
            100, 97, 116, 97>>, None).t = "list"
         THEN Get(body, (* "data" *) <<100, 97, 116, 97>>, None)
    ELSE JList(<<>>)

\* the response was answered, passed raise_for_status and was parsed
Parsed(resp) ==
    /\ resp.t = "http"
    /\ ~(400 <= resp.status /\ resp.status < 600)
    /\ resp.body # Unparsable

\* C8 (SpecFetch): for a parsed body each fetcher returns the bare list, the
\* list under `data`, or the empty list for any other shape, so always a list.
C8_ShapeDecidesList ==
    (fetcher \in ListFetchers /\ response # NoRequest /\ Parsed(response)) =>
        /\ fetched = Return(AcceptedList(response.body))
        /\ fetched.v.t = "list"

\* the positions of the records of items whose id reads as pid
Matches(items, pid) ==
    {i \in 1..Len(items) :
        items[i].t = "dict" /\ Str(Get(items[i], (* "id" *) <<105, 100>>, None)) = pid.s}

\* C9 (SpecFetch): when the direct GET answers with a status other than 200,
\* fetch_property_by_id returns the first record of the fetched list whose id
\* equals the requested id as strings, or the empty record when the list has no
\* such record or the list fetch failed; what it returns is never a record with
\* another id.
C9_FallbackFindsFirstMatch ==
    (fetcher = "fetch_property_by_id" /\ response.t = "http" /\ response.status # 200) =>
        LET items == fetch_all_properties(listResponse).v.items
            hits  == Matches(items, propertyId)
        IN  /\ hits = {} => fetched = Return(JDict(<<>>))
            /\ hits # {} => fetched = Return(items[Least(hits)])
            /\ (fetched.t = "return" /\ fetched.v # JDict(<<>>)) =>
                  /\ fetched.v.t = "dict"
                  /\ Str(Get(fetched.v, (* "id" *) <<105, 100>>, None)) = propertyId.s
            /\ (~Parsed(listResponse) => items = <<>>)

Formatters ==
    {"format_property", "format_property_basic", "format_top_property",
     "format_complaint"}

\* C10 (SpecFormat): no formatter raises, whatever the fields of the record hold.
C10_FormattersNeverRaise ==
    formatter \in Formatters => formatted.t = "return"

-----------------------------------------------------------------------------
(* the top-N reports *)

\* the handler that ran is one of the four that send a top-N report
TopHandler ==
    \/ handler \in {"top5_handler", "top20_handler"}
    \/ /\ handler = "button_callback_handler"
       /\ update.data \in {(* "action_top5" *) <<97, 99, 116, 105, 111, 110, 95, 116, 111, 112,
               53>>, (* "action_top20" *) <<97, 99, 116, 105, 111, 110, 95, 116, 111, 112, 50,
               48>>}

\* the messages of one kind among the replies
RepliesOfKind(kind) == SelectSeq(replies, LAMBDA m : m.kind = kind)

\* the report went out whole: the text summary and the photo
ReportSent == TopHandler /\ RepliesOfKind("photo") # <<>>

\* the number a text shows behind its first `skip` characters
ShownCount(t, skip) == IntVal(SubSeq(t, skip + 1, skip + DigitRun(t, skip + 1)))

\* the ranked entries the report lists: the lines of the summary that give an
\* average
ListedEntries ==
    LET summary == Concat([i \in 1..Len(RepliesOfKind("text")) |->
                              RepliesOfKind("text")[i].text])
        mark    == (* "\u2b50 Avg: " *) <<11088, 32, 65, 118, 103, 58, 32>>
    IN  Cardinality({i \in 1..Len(summary) :
                        PySlice(summary, i - 1, i - 1 + Len(mark)) = mark})

\* the entries a chart shows: the bars of its first ax.barh
ChartedEntries(photo) == Len(photo.figure.axes[1].width)

\* the title of a chart: the label of its ax.set_title
ChartTitle(photo) ==
    SelectSeq(photo.figure.axes, LAMBDA a : a.call = "set_title")[1].label

\* C11 (SpecHandlers): in a top-N report the count shown in the text header, in
\* the chart title and in the photo caption is the number of ranked entries the
\* report lists and charts, not the limit asked for.
C11_DisplayedCountIsReturned ==
    ReportSent =>
        LET summary == RepliesOfKind("text")[1]
            chart   == RepliesOfKind("photo")[1]
        IN  /\ ChartedEntries(chart.photo) = ListedEntries
            /\ ShownCount(summary.text, Len((* "\U0001f3c6 Top " *) <<127942, 32, 84, 111, 112,
                    32>>)) = ListedEntries
            /\ ShownCount(ChartTitle(chart.photo), Len((* "Top " *) <<84, 111, 112, 32>>)) = ListedEntries
            /\ ShownCount(chart.caption, Len((* "\U0001f4ca Top " *) <<128202, 32, 84, 111, 112,
                    32>>)) = ListedEntries

-----------------------------------------------------------------------------
(* chart rendering, call after call *)

\* a call that has returned has handed out what generate_ratings_chart makes of
\* its own entries and title; a call that has raised, the exception of it
ChartReturnsOwnFigure ==
    \A c \in Calls :
        chartPc[c] \in {"done", "raised"} =>
            buf[c] = generate_ratings_chart(chartArgs[c].properties, chartArgs[c].title)

\* between the calls no figure is open
NoFigureLeftOpen ==
    (\A c \in Calls : chartPc[c] \in {"start", "done", "raised"}) => figs = <<>>

\* two calls returned, one after the other, each with labels on its bars
ChartsReturned ==
    \A c \in Calls :
        /\ chartPc[c] = "done"
        /\ \E i \in 1..Len(buf[c].v.figure.axes) : buf[c].v.figure.axes[i].call = "text"

=============================================================================
